---- MODULE Spec2Model ----
(***************************************************************************)
(* Model of the template pipeline of ai-prompt-templates.                  *)
(*                                                                         *)
(*   - template discovery (utils/template-discovery.ts): discoverTemplates,*)
(*     findTemplateFiles, loadTemplate, createDiscoveryError and the shape *)
(*     guards of types/index.ts, as operators over a directory tree;       *)
(*   - the TemplateRegistry (utils/template-registry.ts): its three fields *)
(*     and the synchronous sections of its async methods as actions;       *)
(*   - parameter collection (utils/parameter-collection.ts): the prompts,  *)
(*     the validator and the conversion as operators, one collectParameters*)
(*     call as actions around the answers inquirer.prompt yields;          *)
(*   - the TemplateGenerator (utils/template-generation.ts): its cache of  *)
(*     compiled templates and generatePrompt / clearCache as actions.      *)
(*                                                                         *)
(* JavaScript values are records with a type tag; a Map is a function from *)
(* its keys to its values; an object reference is a number (the heap id of *)
(* the DiscoveryResult a scan produced).                                   *)
(***************************************************************************)
EXTENDS Integers, Sequences, FiniteSets, TLC

(***************************************************************************)
(* Bounds                                                                  *)
(***************************************************************************)
\* entries of one directory of the trees discoverTemplates is applied to
MaxEntries == 2
\* discovery passes one registry run may start
MaxScans == 3
\* registry method calls one run may issue
MaxCalls == 3
\* generatePrompt calls one run may make on the generator
MaxRenders == 2

(***************************************************************************)
(* JavaScript values                                                       *)
(***************************************************************************)
\* a primitive: typeof tag and, for a string, its text
Prim(t, s) == [t |-> t, s |-> s]
Str(s) == Prim("string", s)
Undefined == Prim("undefined", "")
Null == Prim("null", "")
NumberVal == Prim("number", "")

\* typeof v === "string"
IsString(v) == v.t = "string"

\* a value found under config.parameters: an object with the four
\* ParameterConfig properties, or something that is not an object
ParamObj(d, r, ty, dv) ==
  [t |-> "object", description |-> d, required |-> r, type |-> ty, defaultValue |-> dv]
ParamNonObj(t) ==
  [t |-> t, description |-> Undefined, required |-> Undefined, type |-> Undefined,
   defaultValue |-> Undefined]

\* the value of config.parameters: its typeof tag and Object.values of it
ParamsVal(t, vals) == [t |-> t, vals |-> vals]

\* the value a template module exports: an object with the four
\* TemplateConfig properties, or something that is not an object (tag t is
\* the typeof tag, except that null is tagged "null"; truthy is its
\* JavaScript truthiness)
ConfigObj(n, d, tpl, ps) ==
  [t |-> "object", truthy |-> TRUE, name |-> n, description |-> d, template |-> tpl,
   parameters |-> ps]
ConfigNonObj(t, truthy) ==
  [t |-> t, truthy |-> truthy, name |-> Undefined, description |-> Undefined,
   template |-> Undefined, parameters |-> [t |-> "undefined", vals |-> <<>>]]

Bool(b) == Prim("boolean", IF b THEN "true" ELSE "false")

ParameterTypes == {"string", "number", "boolean"}

(***************************************************************************)
(* types/index.ts: the shape guards                                        *)
(***************************************************************************)
\* isValidParameterConfig as it would be without the defaultValue test
isValidParameterConfigAnyDefault(param) ==
  /\ param.t = "object"
  /\ IsString(param.description)
  /\ param.required.t = "boolean"
  /\ IsString(param.type) /\ param.type.s \in ParameterTypes

isValidParameterConfig(param) ==
  /\ param.t = "object"
  /\ IsString(param.description)
  /\ param.required.t = "boolean"
  /\ IsString(param.type) /\ param.type.s \in ParameterTypes
  /\ (param.defaultValue.t = "undefined" \/ IsString(param.defaultValue))

isValidTemplateConfig(config) ==
  /\ config.t = "object"
  /\ IsString(config.name)
  /\ config.name.s # ""
  /\ IsString(config.description)
  /\ IsString(config.template)
  /\ config.parameters.t = "object"
  /\ \A i \in 1..Len(config.parameters.vals) :
       isValidParameterConfig(config.parameters.vals[i])

isTemplateConfig(config) == isValidTemplateConfig(config)

(***************************************************************************)
(* Paths                                                                   *)
(***************************************************************************)
\* a path: absolute or relative to the working directory, and its segments
Path(abs, parts) == [abs |-> abs, parts |-> parts]
Cwd == <<"cwd">>
\* path.resolve: an absolute path is kept, a relative one is put under cwd
resolve(p) == IF p.abs THEN p ELSE Path(TRUE, Cwd \o p.parts)
\* path.join(dir, name)
join(dir, name) == Path(dir.abs, Append(dir.parts, name))
\* the name of the i-th entry readdir returns for a directory
EntryName == <<"e1", "e2", "e3", "e4">>

(***************************************************************************)
(* Maps                                                                    *)
(***************************************************************************)
EmptyMap == <<>>
\* Map.prototype.set as it would be if an existing key kept its value
MapSetIfAbsent(m, k, v) == [x \in (DOMAIN m) \cup {k} |-> IF x \in DOMAIN m THEN m[x] ELSE v]
\* Map.prototype.set
MapSet(m, k, v) == [x \in (DOMAIN m) \cup {k} |-> IF x = k THEN v ELSE m[x]]
\* Map.prototype.has
MapHas(m, k) == k \in DOMAIN m

(***************************************************************************)
(* utils/template-discovery.ts                                             *)
(***************************************************************************)
\* The directory tree: a directory is [readable, entries]; an entry is a
\* file (its extension and the module import() yields for it), a directory
\* (its subtree) or something that is neither.
NoDir == [readable |-> TRUE, entries |-> <<>>]

RECURSIVE findTemplateFiles(_, _, _)
RECURSIVE FindLoop(_, _, _, _, _)
\* the loop over the entries of a directory; a failing recursive call
\* throws out of the loop
FindLoop(dir, path, extension, i, files) ==
  IF i > Len(dir.entries) THEN [ok |-> TRUE, files |-> files]
  ELSE LET entry == dir.entries[i]
           filePath == join(path, EntryName[i])
       IN IF entry.kind = "dir"
          THEN LET subFiles == findTemplateFiles(entry.sub, filePath, extension)
               IN IF ~subFiles.ok THEN [ok |-> FALSE, files |-> <<>>]
                  ELSE FindLoop(dir, path, extension, i + 1, files \o subFiles.files)
          ELSE IF entry.kind = "file" /\ entry.ext = extension
               THEN FindLoop(dir, path, extension, i + 1,
                             Append(files, [path |-> filePath, mod |-> entry.mod]))
               ELSE FindLoop(dir, path, extension, i + 1, files)

\* findTemplateFiles as it would be if a directory that cannot be read
\* counted as an empty one
findTemplateFilesSkipsUnreadable(dir, path, extension) ==
  IF ~dir.readable THEN [ok |-> TRUE, files |-> <<>>]
  ELSE FindLoop(dir, path, extension, 1, <<>>)

\* ok = FALSE: a FileSystemError is thrown
findTemplateFiles(dir, path, extension) ==
  IF ~dir.readable THEN [ok |-> FALSE, files |-> <<>>]
  ELSE FindLoop(dir, path, extension, 1, <<>>)

NoTemplate == [name |-> "", config |-> ConfigNonObj("undefined", FALSE), filePath |-> Path(TRUE, <<>>)]

\* loadTemplate: ok and the TemplateDefinition, or the class of the error
\* it throws and the message
loadTemplate(file) ==
  IF ~file.mod.importOk
  THEN [ok |-> FALSE, error |-> "Error", message |-> "Failed to load template from", template |-> NoTemplate]
  ELSE LET config == IF file.mod.default.truthy THEN file.mod.default ELSE file.mod.config
       IN IF ~config.truthy
          THEN [ok |-> FALSE, error |-> "ValidationError",
                message |-> "Template file must export a default config or named 'config' export",
                template |-> NoTemplate]
          ELSE IF ~isTemplateConfig(config)
          THEN [ok |-> FALSE, error |-> "ValidationError",
                message |-> "Template configuration does not match required structure",
                template |-> NoTemplate]
          ELSE [ok |-> TRUE, error |-> "", message |-> "",
                template |-> [name |-> config.name.s, config |-> config, filePath |-> file.path]]

createDiscoveryError(filePath, error, message) ==
  IF error = "ValidationError"
  THEN [filePath |-> filePath, type |-> "validation", message |-> message]
  ELSE IF error = "FileSystemError"
  THEN [filePath |-> filePath, type |-> "file-system", message |-> message]
  ELSE [filePath |-> filePath, type |-> "load", message |-> "Failed to load template"]

\* LoadLoop as it would be without the try/catch inside the loop: the first
\* failing candidate ends the pass
RECURSIVE LoadLoopAbort(_, _, _, _)
LoadLoopAbort(templateFiles, i, templates, errors) ==
  IF i > Len(templateFiles) THEN [templates |-> templates, errors |-> errors]
  ELSE LET r == loadTemplate(templateFiles[i])
       IN IF r.ok
          THEN LoadLoopAbort(templateFiles, i + 1,
                             MapSet(templates, r.template.name, r.template), errors)
          ELSE [templates |-> templates,
                errors |-> Append(errors, createDiscoveryError(templateFiles[i].path,
                                                               r.error, r.message))]

\* the loop of discoverTemplates over the candidate files
RECURSIVE LoadLoop(_, _, _, _)
LoadLoop(templateFiles, i, templates, errors) ==
  IF i > Len(templateFiles) THEN [templates |-> templates, errors |-> errors]
  ELSE LET r == loadTemplate(templateFiles[i])
       IN IF r.ok
          THEN LoadLoop(templateFiles, i + 1,
                        MapSet(templates, r.template.name, r.template), errors)
          ELSE LoadLoop(templateFiles, i + 1, templates,
                        Append(errors, createDiscoveryError(templateFiles[i].path,
                                                            r.error, r.message)))

\* discoverTemplates as it would be if the directory error carried the
\* resolved path
discoverTemplatesResolvedPath(templatesDir, extension, root) ==
  LET templatesPath == resolve(templatesDir)
      templateFiles == findTemplateFiles(root, templatesPath, extension)
  IN IF templateFiles.ok
     THEN LoadLoop(templateFiles.files, 1, EmptyMap, <<>>)
     ELSE [templates |-> EmptyMap,
           errors |-> <<[filePath |-> templatesPath, type |-> "file-system",
                         message |-> "Failed to access templates directory"]>>]

\* discoverTemplates({templatesDir, extension}) on the tree root found at
\* the resolved templatesDir
discoverTemplates(templatesDir, extension, root) ==
  LET templatesPath == resolve(templatesDir)
      templateFiles == findTemplateFiles(root, templatesPath, extension)
  IN IF templateFiles.ok
     THEN LoadLoop(templateFiles.files, 1, EmptyMap, <<>>)
     ELSE [templates |-> EmptyMap,
           errors |-> <<[filePath |-> templatesDir, type |-> "file-system",
                         message |-> "Failed to access templates directory"]>>]

\* getTemplatesDirectory() of utils/config.ts: always an absolute path
getTemplatesDirectory == resolve(Path(FALSE, <<"src", "templates">>))

(***************************************************************************)
(* The inputs discovery is applied to                                      *)
(***************************************************************************)
GoodParam == ParamObj(Str("d"), Bool(TRUE), Str("string"), Undefined)
GoodParamDefault == ParamObj(Str("d"), Bool(FALSE), Str("number"), Str("5"))
BadParams ==
  { ParamNonObj("null"), ParamNonObj("string"),
    ParamObj(Undefined, Bool(TRUE), Str("string"), Undefined),
    ParamObj(Str("d"), Str("true"), Str("string"), Undefined),
    ParamObj(Str("d"), Bool(TRUE), Str("date"), Undefined),
    ParamObj(Str("d"), Bool(TRUE), Undefined, Undefined),
    ParamObj(Str("d"), Bool(FALSE), Str("string"), Null),
    ParamObj(Str("d"), Bool(FALSE), Str("number"), NumberVal) }

GoodParamLists == { <<>>, <<GoodParam>>, <<GoodParam, GoodParamDefault>> }
BadParamLists == { <<GoodParam, b>> : b \in BadParams } \cup { <<ParamNonObj("null"), GoodParam>> }

ValidConfigs ==
  { ConfigObj(Str("a"), Str("desc"), Str("T"), ParamsVal("object", <<>>)),
    ConfigObj(Str("a"), Str("desc"), Str("T"), ParamsVal("object", <<GoodParam>>)),
    ConfigObj(Str("b"), Str(""), Str(""), ParamsVal("object", <<GoodParam, GoodParamDefault>>)) }
InvalidConfigs ==
  { ConfigObj(n, Str("desc"), Str("T"), ParamsVal("object", <<>>)) :
      n \in {Str(""), Undefined, NumberVal} }
  \cup { ConfigObj(Str("a"), Undefined, Str("T"), ParamsVal("object", <<>>)),
         ConfigObj(Str("a"), Str("desc"), Undefined, ParamsVal("object", <<>>)),
         ConfigObj(Str("a"), Str("desc"), NumberVal, ParamsVal("object", <<>>)) }
  \cup { ConfigObj(Str("a"), Str("desc"), Str("T"), ParamsVal(t, <<>>)) :
           t \in {"null", "undefined", "string"} }
  \cup { ConfigObj(Str("b"), Str("desc"), Str("T"), ParamsVal("object", ps)) :
           ps \in BadParamLists }
NonObjectConfigs ==
  { ConfigNonObj("undefined", FALSE), ConfigNonObj("null", FALSE),
    ConfigNonObj("string", FALSE), ConfigNonObj("string", TRUE) }

\* what import(filePath) yields: it throws, or a module namespace with its
\* default and config exports
Module(ok, def, cfg) == [importOk |-> ok, default |-> def, config |-> cfg]
NoExport == ConfigNonObj("undefined", FALSE)
BrokenModule == Module(FALSE, NoExport, NoExport)
Modules ==
  { BrokenModule }
  \cup { Module(TRUE, c, NoExport) : c \in ValidConfigs \cup InvalidConfigs \cup NonObjectConfigs }
  \cup { Module(TRUE, NoExport, c) :
           c \in { ConfigObj(Str("a"), Str("desc"), Str("T"), ParamsVal("object", <<>>)),
                   ConfigObj(Str(""), Str("desc"), Str("T"), ParamsVal("object", <<>>)) } }
  \cup { Module(TRUE, ConfigNonObj("string", FALSE),
                ConfigObj(Str("b"), Str(""), Str(""), ParamsVal("object", <<GoodParam, GoodParamDefault>>))) }

Entry(kind, ext, mod, sub) == [kind |-> kind, ext |-> ext, mod |-> mod, sub |-> sub]
FileEntry(ext, mod) == Entry("file", ext, mod, NoDir)
DirEntry(sub) == Entry("dir", "", BrokenModule, sub)
OtherEntry == Entry("other", ".ts", BrokenModule, NoDir)
Dir(readable, entries) == [readable |-> readable, entries |-> entries]

ValidA == Module(TRUE, ConfigObj(Str("a"), Str("desc"), Str("T"), ParamsVal("object", <<>>)), NoExport)
ValidB == Module(TRUE, ConfigObj(Str("b"), Str(""), Str(""), ParamsVal("object", <<GoodParam, GoodParamDefault>>)), NoExport)
InvalidM == Module(TRUE, ConfigObj(Str(""), Str("desc"), Str("T"), ParamsVal("object", <<>>)), NoExport)

SubDirs ==
  { Dir(FALSE, <<>>), Dir(TRUE, <<>>),
    Dir(TRUE, <<FileEntry(".ts", ValidA)>>),
    Dir(TRUE, <<FileEntry(".ts", BrokenModule), FileEntry(".ts", ValidB)>>),
    Dir(TRUE, <<FileEntry(".ts", ValidB), DirEntry(Dir(FALSE, <<>>))>>) }
Entries ==
  { FileEntry(".ts", m) : m \in Modules }
  \cup { FileEntry(".md", ValidA), OtherEntry }
  \cup { DirEntry(d) : d \in SubDirs }

SeqsUpTo(S, n) == UNION { [1..k -> S] : k \in 0..n }
Trees == { Dir(FALSE, <<>>) } \cup { Dir(TRUE, es) : es \in SeqsUpTo(Entries, MaxEntries) }
RequestedDirs == { Path(FALSE, <<"templates">>), getTemplatesDirectory }
Extensions == { ".ts", ".md" }

(***************************************************************************)
(* State                                                                   *)
(***************************************************************************)
VARIABLES
  fs,               \* the directory tree at the templates directory
  options,          \* the DiscoveryOptions of a direct discoverTemplates call
  discovered,       \* what that direct call returned
  templates,        \* TemplateRegistry.templates: a reference to a Map
                    \*   (0: the Map of the constructor, s: the Map of result s)
  lastDiscovery,    \* TemplateRegistry.lastDiscovery: a result reference, 0 = null
  discoveryPromise, \* TemplateRegistry.discoveryPromise: the scan whose promise
                    \*   it holds, 0 = null
  heap,             \* the DiscoveryResult objects: heap[s] is the one scan s made
  scans,            \* the discovery passes started so far
  calls,            \* the registry method calls issued so far
  assigns,          \* history: how often a scan's result was assigned to the cache
  templateParameters, \* Object.entries(templateConfig.parameters) of the
                    \*   template collectParameters is called with
  collectPhase,     \* where that call stands: "idle", "prompting", "done"
  prompts,          \* the prompts it handed to inquirer.prompt
  answers,          \* the answers given so far, in prompt order
  collection,       \* the CollectionResult it returned
  promptCalls,      \* history: how often inquirer.prompt was called
  generatorOptions, \* TemplateGenerator.options
  compiledTemplates, \* TemplateGenerator.compiledTemplates
  registeredHelpers, \* TemplateGenerator.registeredHelpers
  handlebarsHelpers, \* the helpers registered with Handlebars
  lastRender,       \* history: the latest generatePrompt call and its result
  firstRendered,    \* history: for each name rendered successfully since the
                    \*   last clearCache, the compiled template the first such
                    \*   render used
  clearedNames,     \* history: the names rendered successfully before a
                    \*   clearCache and not rendered since
  generators,       \* history: how many TemplateGenerators were constructed
  helperRegistrations, \* history: for each helper name, how often
                    \*   Handlebars.registerHelper was called with it and the
                    \*   function of the first call
  cli               \* the generate command in progress: its arguments, where
                    \*   it stands, the template it found, the parameters it
                    \*   renders with, what it wrote and its exit code

registryVars == <<fs, options, discovered, templates, lastDiscovery, discoveryPromise,
                  heap, scans, calls, assigns>>
collectVars == <<templateParameters, collectPhase, prompts, answers, collection,
                 promptCalls>>
renderVars == <<generatorOptions, compiledTemplates, registeredHelpers, handlebarsHelpers,
                lastRender, firstRendered, clearedNames, generators, helperRegistrations>>
pipelineVars == <<collectVars, renderVars, cli>>
vars == <<registryVars, pipelineVars>>

\* an error thrown on the way: the text of its message and the parameter
\* name the message quotes
NoError == [thrown |-> FALSE, text |-> "", param |-> ""]
Throw(text, paramName) == [thrown |-> TRUE, text |-> text, param |-> paramName]

\* no collectParameters call has been made
NoCollection == [parameters |-> EmptyMap, success |-> FALSE, error |-> NoError]
CollectIdle ==
  /\ collectPhase = "idle"
  /\ prompts = <<>>
  /\ answers = <<>>
  /\ collection = NoCollection
  /\ promptCalls = 0

\* no TemplateGenerator is in use
RenderIdle ==
  /\ generatorOptions = <<>>
  /\ compiledTemplates = EmptyMap
  /\ registeredHelpers = {}
  /\ handlebarsHelpers = EmptyMap
  /\ lastRender = <<>>
  /\ firstRendered = EmptyMap
  /\ clearedNames = {}
  /\ generators = 0
  /\ helperRegistrations = EmptyMap

\* no generate command is running
NoCli == [stage |-> "none"]

\* the parameter pipeline is not in use
PipelineIdle ==
  /\ templateParameters = <<>>
  /\ CollectIdle
  /\ RenderIdle
  /\ cli = NoCli

ScanIds == 1..MaxScans
CallIds == 1..MaxCalls

NoResult == [templates |-> EmptyMap, errors |-> <<>>]
NoScan == [status |-> "none", initiator |-> 0, dir |-> NoDir, orig |-> NoResult]
NoCall ==
  [op |-> "none", force |-> FALSE, name |-> "", phase |-> "unused", scan |-> 0, ret |-> 0,
   cachedAtCall |-> 0, namesAtCall |-> {}, inflightAtCall |-> 0, installedAtCall |-> {},
   cachedAtEntry |-> 0, namesAfterSync |-> {}, cacheAtResolve |-> 0,
   template |-> NoTemplate, available |-> <<>>]

\* the directory states the registry runs see
FsVersions ==
  { Dir(TRUE, <<FileEntry(".ts", ValidA), FileEntry(".ts", ValidB)>>),
    Dir(TRUE, <<FileEntry(".ts", InvalidM), FileEntry(".ts", ValidA)>>),
    Dir(FALSE, <<>>) }
\* the names looked up
LookupNames == { "b" }

DefaultOptions == [templatesDir |-> getTemplatesDirectory, extension |-> ".ts"]
NotDiscovered == [done |-> FALSE, templates |-> EmptyMap, errors |-> <<>>]

RegistryInit ==
  /\ templates = 0
  /\ lastDiscovery = 0
  /\ discoveryPromise = 0
  /\ heap = [s \in ScanIds |-> NoResult]
  /\ scans = [s \in ScanIds |-> NoScan]
  /\ calls = [c \in CallIds |-> NoCall]
  /\ assigns = [s \in ScanIds |-> 0]

Init ==
  /\ fs \in FsVersions
  /\ options = DefaultOptions
  /\ discovered = NotDiscovered
  /\ RegistryInit
  /\ PipelineIdle

(***************************************************************************)
(* utils/template-registry.ts                                              *)
(***************************************************************************)
\* the Map a reference denotes
MapOf(ref) == IF ref = 0 THEN EmptyMap ELSE heap[ref].templates

\* Array.from(templates.keys()).sort(): the names used are single letters,
\* ordered by NameRank
NameRank == [n \in {"a", "b"} |-> IF n = "a" THEN 1 ELSE 2]
getTemplateNames(m) ==
  CHOOSE q \in [1..Cardinality(DOMAIN m) -> DOMAIN m] :
    /\ { q[i] : i \in DOMAIN q } = DOMAIN m
    /\ \A i, j \in DOMAIN q : i < j => NameRank[q[i]] < NameRank[q[j]]

\* the read accessors
getTemplateNamesSync == getTemplateNames(MapOf(templates))
getDiscoveryErrors == IF lastDiscovery = 0 THEN <<>> ELSE heap[lastDiscovery].errors
hasDiscoveryErrors == Len(getDiscoveryErrors) > 0
getDiscoverySummary ==
  IF lastDiscovery = 0
  THEN [discovered |-> FALSE, templateCount |-> 0, errorCount |-> 0, hasErrors |-> FALSE]
  ELSE [discovered |-> TRUE,
        templateCount |-> Cardinality(DOMAIN heap[lastDiscovery].templates),
        errorCount |-> Len(heap[lastDiscovery].errors),
        hasErrors |-> Len(heap[lastDiscovery].errors) > 0]

\* the call slot a new call takes
NextCall(c) == calls[c].phase = "unused" /\ \A d \in CallIds : d < c => calls[d].phase # "unused"
\* the id the next scan gets
NextScan == 1 + Cardinality({ s \in ScanIds : scans[s].status # "none" })
\* the scans whose result has been assigned to the cache
Installed == { s \in ScanIds : assigns[s] > 0 }
\* the phase of a call once its discover() has resolved
AfterDiscover(op) == IF op \in {"discover", "refresh"} THEN "resolved" ELSE "awaited"

\* discover as it would be without the test of discoveryPromise
discoverNoSingleFlight(c, op, force, name, ld, hp) ==
  LET call == [NoCall EXCEPT !.op = op, !.force = force, !.name = name,
                 !.cachedAtCall = lastDiscovery,
                 !.namesAtCall = DOMAIN MapOf(templates),
                 !.inflightAtCall = discoveryPromise,
                 !.installedAtCall = Installed,
                 !.cachedAtEntry = ld,
                 !.namesAfterSync = IF templates = 0 THEN {} ELSE DOMAIN hp[templates].templates]
  IN /\ lastDiscovery' = ld
     /\ heap' = hp
     /\ IF ~force /\ ld # 0
        THEN /\ calls' = [calls EXCEPT ![c] =
                            [call EXCEPT !.phase = AfterDiscover(op), !.ret = ld,
                                         !.cacheAtResolve = ld]]
             /\ UNCHANGED <<discoveryPromise, scans>>
        ELSE /\ NextScan \in ScanIds
             /\ discoveryPromise' = NextScan
             /\ scans' = [scans EXCEPT ![NextScan] =
                            [NoScan EXCEPT !.status = "running", !.initiator = c]]
             /\ calls' = [calls EXCEPT ![c] =
                            [call EXCEPT !.phase = "started", !.scan = NextScan]]

\* discover as it would be without the test of the cached result
discoverNoCache(c, op, force, name, ld, hp) ==
  LET call == [NoCall EXCEPT !.op = op, !.force = force, !.name = name,
                 !.cachedAtCall = lastDiscovery,
                 !.namesAtCall = DOMAIN MapOf(templates),
                 !.inflightAtCall = discoveryPromise,
                 !.installedAtCall = Installed,
                 !.cachedAtEntry = ld,
                 !.namesAfterSync = IF templates = 0 THEN {} ELSE DOMAIN hp[templates].templates]
  IN /\ lastDiscovery' = ld
     /\ heap' = hp
     /\ IF discoveryPromise # 0
        THEN /\ calls' = [calls EXCEPT ![c] =
                            [call EXCEPT !.phase = "joined", !.scan = discoveryPromise]]
             /\ UNCHANGED <<discoveryPromise, scans>>
        ELSE /\ NextScan \in ScanIds
             /\ discoveryPromise' = NextScan
             /\ scans' = [scans EXCEPT ![NextScan] =
                            [NoScan EXCEPT !.status = "running", !.initiator = c]]
             /\ calls' = [calls EXCEPT ![c] =
                            [call EXCEPT !.phase = "started", !.scan = NextScan]]

\* discover(force) up to its first await, entered by call c of method op with
\* this.lastDiscovery = ld and the heap hp (refresh() has cleared them before)
discover(c, op, force, name, ld, hp) ==
  LET call == [NoCall EXCEPT !.op = op, !.force = force, !.name = name,
                 !.cachedAtCall = lastDiscovery,
                 !.namesAtCall = DOMAIN MapOf(templates),
                 !.inflightAtCall = discoveryPromise,
                 !.installedAtCall = Installed,
                 !.cachedAtEntry = ld,
                 !.namesAfterSync = IF templates = 0 THEN {} ELSE DOMAIN hp[templates].templates]
  IN /\ lastDiscovery' = ld
     /\ heap' = hp
     /\ IF ~force /\ ld # 0
        THEN /\ calls' = [calls EXCEPT ![c] =
                            [call EXCEPT !.phase = AfterDiscover(op), !.ret = ld,
                                         !.cacheAtResolve = ld]]
             /\ UNCHANGED <<discoveryPromise, scans>>
        ELSE IF discoveryPromise # 0
        THEN /\ calls' = [calls EXCEPT ![c] =
                            [call EXCEPT !.phase = "joined", !.scan = discoveryPromise]]
             /\ UNCHANGED <<discoveryPromise, scans>>
        ELSE /\ NextScan \in ScanIds
             /\ discoveryPromise' = NextScan
             /\ scans' = [scans EXCEPT ![NextScan] =
                            [NoScan EXCEPT !.status = "running", !.initiator = c]]
             /\ calls' = [calls EXCEPT ![c] =
                            [call EXCEPT !.phase = "started", !.scan = NextScan]]

\* registry.discover(force)
Discover(force) ==
  \E c \in CallIds :
    /\ NextCall(c)
    /\ discover(c, "discover", force, "", lastDiscovery, heap)
    /\ UNCHANGED pipelineVars
    /\ UNCHANGED <<fs, options, discovered, templates, assigns>>

\* refresh as it would be if it nulled the result and left the Map alone
RefreshKeepsTemplates ==
  \E c \in CallIds :
    /\ NextCall(c)
    /\ discover(c, "refresh", TRUE, "", 0, heap)
    /\ UNCHANGED pipelineVars
    /\ UNCHANGED <<fs, options, discovered, templates, assigns>>

\* refresh as it would be if it only called discover(true)
RefreshNoClear ==
  \E c \in CallIds :
    /\ NextCall(c)
    /\ discover(c, "refresh", TRUE, "", lastDiscovery, heap)
    /\ UNCHANGED pipelineVars
    /\ UNCHANGED <<fs, options, discovered, templates, assigns>>

\* registry.refresh(): null the result, clear the Map, discover(true)
Refresh ==
  \E c \in CallIds :
    /\ NextCall(c)
    /\ discover(c, "refresh", TRUE, "", 0,
                IF templates = 0 THEN heap
                ELSE [heap EXCEPT ![templates].templates = EmptyMap])
    /\ UNCHANGED pipelineVars
    /\ UNCHANGED <<fs, options, discovered, templates, assigns>>

\* registry.getTemplate(name) up to its await of discover()
GetTemplate(name) ==
  \E c \in CallIds :
    /\ NextCall(c)
    /\ discover(c, "getTemplate", FALSE, name, lastDiscovery, heap)
    /\ UNCHANGED pipelineVars
    /\ UNCHANGED <<fs, options, discovered, templates, assigns>>

\* _performDiscovery(): discoverTemplates() reads the directory and its
\* promise is fulfilled with a new result object
PerformDiscovery(s) ==
  /\ scans[s].status = "running"
  /\ LET r == discoverTemplates(getTemplatesDirectory, ".ts", fs)
     IN /\ heap' = [heap EXCEPT ![s] = r]
        /\ scans' = [scans EXCEPT ![s].status = "settled", ![s].dir = fs, ![s].orig = r]
  /\ UNCHANGED pipelineVars
  /\ UNCHANGED <<fs, options, discovered, templates, lastDiscovery, discoveryPromise,
                 calls, assigns>>

\* discover() after its await: assign the cache, release the promise, return
DiscoverResume(s) ==
  /\ scans[s].status = "settled"
  /\ lastDiscovery' = s
  /\ templates' = s
  /\ discoveryPromise' = 0
  /\ assigns' = [assigns EXCEPT ![s] = @ + 1]
  /\ scans' = [scans EXCEPT ![s].status = "resumed"]
  /\ LET c == scans[s].initiator
     IN calls' = [calls EXCEPT ![c] =
                    [calls[c] EXCEPT !.phase = AfterDiscover(calls[c].op), !.ret = s,
                                     !.cacheAtResolve = s]]
  /\ UNCHANGED pipelineVars
  /\ UNCHANGED <<fs, options, discovered, heap>>

\* a call that returned the in-flight promise resolves with its result; the
\* initiator's continuation was queued first and has run
JoinResolve(c) ==
  /\ calls[c].phase = "joined"
  /\ scans[calls[c].scan].status = "resumed"
  /\ calls' = [calls EXCEPT ![c] =
                 [calls[c] EXCEPT !.phase = AfterDiscover(calls[c].op),
                                  !.ret = calls[c].scan,
                                  !.cacheAtResolve = lastDiscovery]]
  /\ UNCHANGED pipelineVars
  /\ UNCHANGED <<fs, options, discovered, templates, lastDiscovery, discoveryPromise,
                 heap, scans, assigns>>

\* the lookup as it would be if it searched the values for a definition
\* instead of reading the key
LookupResumeAnyValue(c) ==
  /\ calls[c].phase = "awaited"
  /\ LET m == MapOf(templates)
     IN IF DOMAIN m # {}
        THEN calls' = [calls EXCEPT ![c] =
                         [@ EXCEPT !.phase = "resolved",
                                   !.template = m[CHOOSE n \in DOMAIN m : TRUE]]]
        ELSE calls' = [calls EXCEPT ![c] =
                         [@ EXCEPT !.phase = "rejected",
                                   !.available = getTemplateNamesSync]]
  /\ UNCHANGED pipelineVars
  /\ UNCHANGED <<fs, options, discovered, templates, lastDiscovery, discoveryPromise,
                 heap, scans, assigns>>

\* getTemplate after its await: look the name up in this.templates
LookupResume(c) ==
  /\ calls[c].phase = "awaited"
  /\ LET m == MapOf(templates)
         name == calls[c].name
     IN IF MapHas(m, name)
        THEN calls' = [calls EXCEPT ![c] =
                         [@ EXCEPT !.phase = "resolved", !.template = m[name]]]
        ELSE calls' = [calls EXCEPT ![c] =
                         [@ EXCEPT !.phase = "rejected",
                                   !.available = getTemplateNamesSync]]
  /\ UNCHANGED pipelineVars
  /\ UNCHANGED <<fs, options, discovered, templates, lastDiscovery, discoveryPromise,
                 heap, scans, assigns>>

\* the environment changes the templates directory
ChangeFs ==
  /\ fs' \in FsVersions \ {fs}
  /\ UNCHANGED pipelineVars
  /\ UNCHANGED <<options, discovered, templates, lastDiscovery, discoveryPromise,
                 heap, scans, calls, assigns>>

Next ==
  \/ \E force \in BOOLEAN : Discover(force)
  \/ Refresh
  \/ \E name \in LookupNames : GetTemplate(name)
  \/ \E s \in ScanIds : PerformDiscovery(s)
  \/ \E s \in ScanIds : DiscoverResume(s)
  \/ \E c \in CallIds : JoinResolve(c)
  \/ \E c \in CallIds : LookupResume(c)
  \/ ChangeFs

Spec == Init /\ [][Next]_vars

(***************************************************************************)
(* discoverTemplates applied to every tree                                 *)
(***************************************************************************)
InitDisc ==
  /\ fs \in Trees
  /\ options \in [templatesDir : RequestedDirs, extension : Extensions]
  /\ discovered = NotDiscovered
  /\ RegistryInit
  /\ PipelineIdle

\* discoverTemplates(options)
DiscoverTemplates ==
  /\ ~discovered.done
  /\ LET r == discoverTemplates(options.templatesDir, options.extension, fs)
     IN discovered' = [done |-> TRUE, templates |-> r.templates, errors |-> r.errors]
  /\ UNCHANGED pipelineVars
  /\ UNCHANGED <<fs, options, templates, lastDiscovery, discoveryPromise, heap, scans,
                 calls, assigns>>

NextDisc == DiscoverTemplates

SpecDisc == InitDisc /\ [][NextDisc]_vars

(***************************************************************************)
(* Properties of discoverTemplates (SpecDisc)                              *)
(***************************************************************************)
\* the candidate files the pass enumerates, in enumeration order
Candidates == findTemplateFiles(fs, resolve(options.templatesDir), options.extension)
\* the value loadTemplate takes as the configuration of a module
Exported(mod) == IF mod.default.truthy THEN mod.default ELSE mod.config
ImportFails(f) == ~f.mod.importOk
\* the TemplateDefinition shape, as the specification states it
ParameterShape(p) ==
  /\ p.t = "object"
  /\ p.description.t = "string"
  /\ p.required.t = "boolean"
  /\ p.type.t = "string" /\ p.type.s \in {"string", "number", "boolean"}
  /\ p.defaultValue.t \in {"undefined", "string"}
DefinitionShape(c) ==
  /\ c.t = "object"
  /\ c.name.t = "string" /\ c.name.s # ""
  /\ c.description.t = "string"
  /\ c.template.t = "string"
  /\ c.parameters.t = "object"
  /\ \A i \in DOMAIN c.parameters.vals : ParameterShape(c.parameters.vals[i])
ValidCandidate(f) == f.mod.importOk /\ DefinitionShape(Exported(f.mod))
FailingCandidates == SelectSeq(Candidates.files, LAMBDA f : ~ValidCandidate(f))
ValidIndexes == { i \in DOMAIN Candidates.files : ValidCandidate(Candidates.files[i]) }
MapPaths == { discovered.templates[n].filePath : n \in DOMAIN discovered.templates }

C8_RootUnreadable ==
  (discovered.done /\ ~fs.readable) =>
    /\ discovered.templates = EmptyMap
    /\ Len(discovered.errors) = 1
    /\ discovered.errors[1].type = "file-system"
    /\ discovered.errors[1].filePath = options.templatesDir

\* a pass over an unreadable root, requested by a relative path, has returned
C8_Witness ==
  /\ discovered.done
  /\ ~fs.readable
  /\ ~options.templatesDir.abs
  /\ Len(discovered.errors) = 1

\* C9: every entry of the result map is keyed by its own config name and
\* satisfies the TemplateDefinition shape; no candidate violating the shape
\* is in the map.
C9_MapEntriesWellShaped ==
  discovered.done =>
    /\ \A n \in DOMAIN discovered.templates :
         /\ discovered.templates[n].name = n
         /\ discovered.templates[n].config.name.s = n
         /\ DefinitionShape(discovered.templates[n].config)
    /\ Candidates.ok =>
         \A i \in DOMAIN Candidates.files :
           ~DefinitionShape(Exported(Candidates.files[i].mod)) =>
             Candidates.files[i].path \notin MapPaths

\* a pass has returned a definition with a defaulted parameter and rejected a
\* candidate whose only defect is the type of a defaultValue
C9_Witness ==
  /\ discovered.done
  /\ Candidates.ok
  /\ \E n \in DOMAIN discovered.templates :
       \E i \in DOMAIN discovered.templates[n].config.parameters.vals :
         discovered.templates[n].config.parameters.vals[i].defaultValue.t = "string"
  /\ \E i \in DOMAIN Candidates.files :
       LET c == Exported(Candidates.files[i].mod)
       IN /\ c.t = "object"
          /\ \E j \in DOMAIN c.parameters.vals :
               c.parameters.vals[j].t = "object" /\ c.parameters.vals[j].defaultValue.t = "null"
          /\ Candidates.files[i].path \notin MapPaths

\* the valid candidates that declare name n
Declaring(n) == { i \in ValidIndexes : Exported(Candidates.files[i].mod).name.s = n }
Max(S) == CHOOSE x \in S : \A y \in S : y <= x

\* C10: when several valid candidates declare the same name, no error is
\* recorded for any of them and the map holds, under that name, the
\* definition from the one enumerated last.
C10_DuplicateLastWins ==
  (discovered.done /\ Candidates.ok) =>
    \A n \in {"a", "b"} :
      Declaring(n) # {} =>
        /\ n \in DOMAIN discovered.templates
        /\ discovered.templates[n].filePath = Candidates.files[Max(Declaring(n))].path
        /\ discovered.templates[n].config = Exported(Candidates.files[Max(Declaring(n))].mod)
        /\ \A i \in Declaring(n) : \A k \in DOMAIN discovered.errors :
             discovered.errors[k].filePath # Candidates.files[i].path

\* a pass over two valid candidates declaring the same name with different
\* definitions has returned
C10_Witness ==
  /\ discovered.done
  /\ Candidates.ok
  /\ \E n \in {"a", "b"} :
       /\ Cardinality(Declaring(n)) >= 2
       /\ \E i, j \in Declaring(n) :
            Exported(Candidates.files[i].mod) # Exported(Candidates.files[j].mod)
  /\ discovered.errors = <<>>

(***************************************************************************)
(* Properties of the TemplateRegistry (Spec)                               *)
(***************************************************************************)
\* the passes whose promise discover() still holds
InFlight == { s \in ScanIds : scans[s].status \in {"running", "settled"} }
\* call c started a pass of its own
StartedOwnScan(c) == \E s \in ScanIds : scans[s].initiator = c
\* the discover() of call c has resolved
DiscoverResolved(c) == calls[c].phase \in {"awaited", "resolved", "rejected"}
Issued(c) == calls[c].op # "none"

\* C1: discover is single-flight: at most one discovery pass is in flight at
\* any moment, a call issued while a pass is in flight (whatever its force)
\* starts no pass, and the cache is assigned exactly once per pass.
C1_SingleFlight ==
  /\ Cardinality(InFlight) <= 1
  /\ (discoveryPromise # 0 => InFlight = {discoveryPromise})
  /\ \A c \in CallIds : (Issued(c) /\ calls[c].inflightAtCall # 0) => ~StartedOwnScan(c)
  /\ \A s \in ScanIds : assigns[s] = IF scans[s].status = "resumed" THEN 1 ELSE 0

\* a forced call joined a pass in flight, and that pass was assigned once
C1_Witness ==
  \E c \in CallIds :
    /\ calls[c].force
    /\ calls[c].inflightAtCall # 0
    /\ calls[c].phase = "resolved"
    /\ assigns[calls[c].ret] = 1

\* C2 as claimed: every discover() call that arrives while a pass is in
\* flight returns the result of that pass, for every value of force and
\* whether or not an older cached result exists.
C2_AlwaysJoinsInFlight ==
  \A c \in CallIds :
    (Issued(c) /\ calls[c].inflightAtCall # 0 /\ DiscoverResolved(c)) =>
      calls[c].ret = calls[c].inflightAtCall

\* C2 as amended: a discover() call that arrives while a pass is in flight
\* waits on that pass and returns its result, the object the initiating call
\* receives, when force is true or no result is cached; with force false and
\* a cached result it returns the cached result without waiting.
C2_JoinsInFlightUnlessCached ==
  \A c \in CallIds :
    (Issued(c) /\ calls[c].inflightAtCall # 0) =>
      IF calls[c].force \/ calls[c].cachedAtEntry = 0
      THEN /\ calls[c].scan = calls[c].inflightAtCall
           /\ ~StartedOwnScan(c)
           /\ DiscoverResolved(c) =>
                /\ calls[c].ret = calls[c].inflightAtCall
                /\ scans[calls[c].ret].status = "resumed"
                /\ calls[scans[calls[c].ret].initiator].ret = calls[c].ret
      ELSE /\ DiscoverResolved(c)
           /\ calls[c].ret = calls[c].cachedAtEntry

\* a forced call that found an older cached result and a pass in flight has
\* resolved with the result of that pass
C2_Witness ==
  \E c \in CallIds :
    /\ calls[c].op = "discover"
    /\ calls[c].force
    /\ calls[c].cachedAtCall # 0
    /\ calls[c].inflightAtCall # 0
    /\ calls[c].phase = "resolved"
    /\ calls[c].ret = calls[c].inflightAtCall

\* what the read accessors show
Observed ==
  [names |-> getTemplateNamesSync, errors |-> getDiscoveryErrors,
   summary |-> getDiscoverySummary]
\* what they show of a complete result r, and before any discovery
ViewOf(r) ==
  [names |-> getTemplateNames(r.templates), errors |-> r.errors,
   summary |-> [discovered |-> TRUE, templateCount |-> Cardinality(DOMAIN r.templates),
                errorCount |-> Len(r.errors), hasErrors |-> Len(r.errors) > 0]]
InitialView ==
  [names |-> <<>>, errors |-> <<>>,
   summary |-> [discovered |-> FALSE, templateCount |-> 0, errorCount |-> 0,
                hasErrors |-> FALSE]]
\* the pass whose result was assigned to the cache last (passes are
\* numbered in the order they start)
LastInstalled == IF Installed = {} THEN 0 ELSE Max(Installed)

\* C3 as claimed: the cache is replaced atomically: at every point a reader
\* observes the complete result assigned last (the previous one until the new
\* one is assigned), never an emptied, partial or mixed state.
C3_CacheReplacedAtomically ==
  Observed = IF LastInstalled = 0 THEN InitialView
             ELSE ViewOf(scans[LastInstalled].orig)

\* C4: with a cached result, discover(false) returns that result object and
\* starts no pass, however often it is called; discover(true) returns the
\* result of a pass that had not been assigned before the call (a pass the
\* call starts itself when none is in flight), that result is assigned to
\* the cache, and when the directory read by that pass equals the one read
\* for the cached result the two have the same template names.
C4_CachedUnlessForced ==
  \A c \in CallIds :
    (calls[c].op = "discover" /\ calls[c].cachedAtCall # 0) =>
      IF ~calls[c].force
      THEN /\ calls[c].phase = "resolved"
           /\ calls[c].ret = calls[c].cachedAtCall
           /\ ~StartedOwnScan(c)
      ELSE /\ calls[c].inflightAtCall = 0 => scans[calls[c].scan].initiator = c
           /\ calls[c].phase = "resolved" =>
                /\ calls[c].ret = calls[c].scan
                /\ calls[c].ret \notin calls[c].installedAtCall
                /\ assigns[calls[c].ret] = 1
                /\ StartedOwnScan(c) => calls[c].cacheAtResolve = calls[c].ret
                /\ scans[calls[c].ret].dir = scans[calls[c].cachedAtCall].dir =>
                     DOMAIN scans[calls[c].ret].orig.templates = calls[c].namesAtCall

\* discover(false) has returned a cached result and discover(true) has
\* rescanned the same directory and returned a new object with templates
C4_Witness ==
  \E c, d \in CallIds :
    /\ calls[c].op = "discover" /\ ~calls[c].force /\ calls[c].cachedAtCall # 0
    /\ calls[d].op = "discover" /\ calls[d].force /\ calls[d].cachedAtCall # 0
    /\ calls[d].phase = "resolved"
    /\ StartedOwnScan(d)
    /\ scans[calls[d].ret].dir = scans[calls[d].cachedAtCall].dir
    /\ calls[d].namesAtCall # {}

\* C5 as claimed: the result refresh() returns comes from a pass that started
\* after refresh() was called, in every registry state.
C5_AlwaysOwnPass ==
  \A c \in CallIds : calls[c].op = "refresh" => StartedOwnScan(c)

\* C5 as amended: refresh() clears the cache; when no discovery is in flight
\* it starts a pass, returns the result of that pass and that result is the
\* cache content when it resolves; when a discovery is in flight it starts no
\* pass and returns the result of the pass in flight.
C5_RefreshClearsAndRediscovers ==
  \A c \in CallIds :
    calls[c].op = "refresh" =>
      /\ calls[c].cachedAtEntry = 0
      /\ calls[c].namesAfterSync = {}
      /\ IF calls[c].inflightAtCall = 0
         THEN /\ scans[calls[c].scan].initiator = c
              /\ calls[c].phase = "resolved" =>
                   /\ calls[c].ret = calls[c].scan
                   /\ calls[c].cacheAtResolve = calls[c].ret
         ELSE /\ ~StartedOwnScan(c)
              /\ calls[c].scan = calls[c].inflightAtCall
              /\ calls[c].phase = "resolved" => calls[c].ret = calls[c].inflightAtCall

\* refresh() called on a registry with a cached result that had templates,
\* and nothing in flight, has resolved
C5_Witness ==
  \E c \in CallIds :
    /\ calls[c].op = "refresh"
    /\ calls[c].cachedAtCall # 0
    /\ calls[c].namesAtCall # {}
    /\ calls[c].inflightAtCall = 0
    /\ calls[c].phase = "resolved"

\* C6: getTemplate(name) performs discover(false) first; when it then looks
\* the name up, it returns the definition stored under that name if the name
\* is a key of the registry's map, and otherwise fails with the sorted list of
\* exactly the names the map holds; a definition it returns carries the name
\* asked for.
C6_GetTemplate ==
  [][\A c \in CallIds :
       (calls[c].op = "getTemplate" /\ calls'[c] # calls[c]) =>
         /\ ~calls[c].force
         /\ calls'[c].phase \in {"resolved", "rejected"} =>
              /\ calls[c].phase = "awaited"
              /\ calls[c].ret # 0
              /\ IF calls[c].name \in DOMAIN MapOf(templates)
                 THEN /\ calls'[c].phase = "resolved"
                      /\ calls'[c].template = MapOf(templates)[calls[c].name]
                      /\ calls'[c].template.name = calls[c].name
                      /\ calls'[c].template.config.name.s = calls[c].name
                 ELSE /\ calls'[c].phase = "rejected"
                      /\ Len(calls'[c].available) = Cardinality(DOMAIN MapOf(templates))
                      /\ { calls'[c].available[i] : i \in DOMAIN calls'[c].available }
                           = DOMAIN MapOf(templates)]_vars

\* one getTemplate call has returned the definition and another has failed
\* with a non-empty list of known names
C6_Witness ==
  \E c, d \in CallIds :
    /\ calls[c].op = "getTemplate" /\ calls[c].phase = "resolved"
    /\ calls[d].op = "getTemplate" /\ calls[d].phase = "rejected"
    /\ calls[d].available # <<>>

(***************************************************************************)
(* JavaScript conversions, over the values the parameter pipeline handles  *)
(***************************************************************************)
\* a number: its decimal text, "NaN" for NaN
Num(s) == Prim("number", s)

\* String.prototype.trim, over the texts in use
trim(s) == IF s = " " THEN "" ELSE s

\* String.prototype.toLowerCase, over the texts in use
toLowerCase(s) ==
  CASE s = "TRUE" -> "true"
    [] s = "Yes" -> "yes"
    [] s = "NO" -> "no"
    [] OTHER -> s

\* the numeric value of a string (StringToNumber), over the texts in use
StringToNumber(s) ==
  CASE trim(s) = "" -> "0"
    [] s \in {"0", "1", "5"} -> s
    [] OTHER -> "NaN"

\* Number(v)
Number(v) ==
  CASE v.t = "number" -> v
    [] v.t = "string" -> Num(StringToNumber(v.s))
    [] v.t = "boolean" -> Num(IF v.s = "true" THEN "1" ELSE "0")
    [] v.t = "null" -> Num("0")
    [] OTHER -> Num("NaN")

\* isNaN(v)
isNaN(v) == Number(v).s = "NaN"

\* String(v)
String(v) ==
  CASE v.t = "string" -> v
    [] v.t = "number" -> Str(v.s)
    [] v.t = "boolean" -> Str(v.s)
    [] v.t = "null" -> Str("null")
    [] OTHER -> Str("undefined")

\* the truthiness of a value
Truthy(v) ==
  CASE v.t = "boolean" -> v.s = "true"
    [] v.t = "string" -> v.s # ""
    [] v.t = "number" -> v.s \notin {"0", "NaN"}
    [] OTHER -> FALSE

\* Boolean(v)
Boolean(v) == Bool(Truthy(v))

(***************************************************************************)
(* utils/parameter-collection.ts                                           *)
(***************************************************************************)
\* an entry of Object.entries(templateConfig.parameters)
ParamEntry(name, config) == [name |-> name, config |-> config]

\* value === "" || value === null || value === undefined
IsEmptyValue(value) == value = Str("") \/ value = Null \/ value = Undefined

\* validateParameterValue(paramName, value, config): the error it throws
validateParameterValue(paramName, value, config) ==
  IF Truthy(config.required) /\ IsEmptyValue(value)
    THEN Throw("is required", paramName)
  ELSE IF ~Truthy(config.required) /\ IsEmptyValue(value)
    THEN NoError
  ELSE CASE config.type.s = "string" ->
              IF value.t # "string" THEN Throw("must be a string", paramName) ELSE NoError
         [] config.type.s = "number" ->
              IF isNaN(Number(value)) THEN Throw("must be a valid number", paramName)
              ELSE NoError
         [] config.type.s = "boolean" ->
              IF value.t # "boolean" THEN Throw("must be a boolean", paramName) ELSE NoError
         [] OTHER -> Throw("Unsupported parameter type", paramName)

\* the function createValidator(paramName, config) returns, applied to input:
\* NoError stands for true, an error for its message
createValidator(paramName, config, input) == validateParameterValue(paramName, input, config)

\* the filter of a number prompt, applied to input
numberFilter(config, input) ==
  IF input.t = "string" /\ trim(input.s) = "" /\ config.defaultValue # Undefined
    THEN config.defaultValue
    ELSE input

\* the prompt createPromptsFromParameters builds for one entry
createPrompt(paramName, config) ==
  LET defaultText ==
        IF ~Truthy(config.required) /\ config.defaultValue # Undefined
          THEN config.defaultValue ELSE Undefined
      message ==
        [name |-> paramName, description |-> config.description,
         defaultText |-> defaultText, requiredText |-> Truthy(config.required)]
  IN CASE config.type.s = "boolean" ->
            [name |-> paramName, message |-> message, type |-> "confirm",
             default |-> IF config.defaultValue # Undefined
                           THEN Bool(config.defaultValue = Str("true")) ELSE Undefined,
             filter |-> FALSE, config |-> config]
       [] config.type.s = "number" ->
            [name |-> paramName, message |-> message, type |-> "input",
             default |-> config.defaultValue, filter |-> TRUE, config |-> config]
       [] OTHER ->
            [name |-> paramName, message |-> message, type |-> "input",
             default |-> config.defaultValue, filter |-> FALSE, config |-> config]

\* createPromptsFromParameters(parameterEntries, options)
createPromptsFromParameters(parameterEntries) ==
  [i \in DOMAIN parameterEntries |->
     createPrompt(parameterEntries[i].name, parameterEntries[i].config)]

\* the type conversion of validateAndConvertParameters: the converted value
\* or the error thrown
Converted(value) == [error |-> NoError, value |-> value]
ConversionFails(error) == [error |-> error, value |-> Undefined]
\* the boolean branch as it would be if every string went by truthiness
convertValueLaxBoolean(paramName, finalValue, type) ==
  CASE type = "string" -> Converted(String(finalValue))
    [] type = "number" ->
         IF isNaN(Number(finalValue))
           THEN ConversionFails(Throw("Invalid number value", paramName))
           ELSE Converted(Number(finalValue))
    [] type = "boolean" ->
         IF finalValue.t = "boolean" THEN Converted(finalValue)
         ELSE Converted(Boolean(finalValue))
    [] OTHER -> ConversionFails(Throw("Unsupported parameter type", paramName))

convertValue(paramName, finalValue, type) ==
  CASE type = "string" -> Converted(String(finalValue))
    [] type = "number" ->
         IF isNaN(Number(finalValue))
           THEN ConversionFails(Throw("Invalid number value", paramName))
           ELSE Converted(Number(finalValue))
    [] type = "boolean" ->
         IF finalValue.t = "boolean" THEN Converted(finalValue)
         ELSE IF finalValue.t = "string"
           THEN IF toLowerCase(finalValue.s) \in {"true", "yes", "1"}
                  THEN Converted(Bool(TRUE))
                ELSE IF toLowerCase(finalValue.s) \in {"false", "no", "0"}
                  THEN Converted(Bool(FALSE))
                ELSE ConversionFails(Throw("Invalid boolean value", paramName))
         ELSE Converted(Boolean(finalValue))
    [] OTHER -> ConversionFails(Throw("Unsupported parameter type", paramName))

\* the value the conversion works on: the default replaces a blank answer of
\* an optional parameter
finalValueOf(rawValue, config) ==
  IF /\ (rawValue = Str("") \/ rawValue = Undefined)
     /\ ~Truthy(config.required)
     /\ config.defaultValue # Undefined
    THEN config.defaultValue
    ELSE rawValue

\* the loop as it would be if a blank optional parameter were converted
\* like any other
RECURSIVE ConvertLoopKeepBlank(_, _, _, _)
ConvertLoopKeepBlank(rawAnswers, parameterEntries, i, parameters) ==
  IF i > Len(parameterEntries) THEN [error |-> NoError, parameters |-> parameters]
  ELSE
    LET paramName == parameterEntries[i].name
        paramConfig == parameterEntries[i].config
        finalValue == finalValueOf(rawAnswers[i], paramConfig)
        conv == convertValue(paramName, finalValue, paramConfig.type.s)
        check == validateParameterValue(paramName, conv.value, paramConfig)
    IN IF conv.error.thrown THEN [error |-> conv.error, parameters |-> parameters]
       ELSE IF check.thrown THEN [error |-> check, parameters |-> parameters]
       ELSE ConvertLoopKeepBlank(rawAnswers, parameterEntries, i + 1,
                                 MapSet(parameters, paramName, conv.value))

\* the loop of validateAndConvertParameters from entry i on: the parameters
\* collected, or the first error thrown
RECURSIVE ConvertLoop(_, _, _, _)
ConvertLoop(rawAnswers, parameterEntries, i, parameters) ==
  IF i > Len(parameterEntries) THEN [error |-> NoError, parameters |-> parameters]
  ELSE
    LET paramName == parameterEntries[i].name
        paramConfig == parameterEntries[i].config
        finalValue == finalValueOf(rawAnswers[i], paramConfig)
    IN IF ~Truthy(paramConfig.required) /\ (finalValue = Str("") \/ finalValue = Undefined)
         THEN ConvertLoop(rawAnswers, parameterEntries, i + 1, parameters)
       ELSE
         LET conv == convertValue(paramName, finalValue, paramConfig.type.s)
             check == validateParameterValue(paramName, conv.value, paramConfig)
         IN IF conv.error.thrown THEN [error |-> conv.error, parameters |-> parameters]
            ELSE IF check.thrown THEN [error |-> check, parameters |-> parameters]
            ELSE ConvertLoop(rawAnswers, parameterEntries, i + 1,
                             MapSet(parameters, paramName, conv.value))

\* validateAndConvertParameters(rawAnswers, parameterConfigs); rawAnswers[i]
\* is the answer under the name of entry i
validateAndConvertParameters(rawAnswers, parameterEntries) ==
  ConvertLoop(rawAnswers, parameterEntries, 1, EmptyMap)

\* the CollectionResult collectParameters returns
CollectionSuccess(parameters) ==
  [parameters |-> parameters, success |-> TRUE, error |-> NoError]
\* the failed result as it would be if it kept success = true
CollectionFailureKeepsSuccess(error) ==
  [parameters |-> EmptyMap, success |-> TRUE, error |-> error]

CollectionFailure(error) ==
  [parameters |-> EmptyMap, success |-> FALSE, error |-> error]

(***************************************************************************)
(* collectParameters: one interactive collection                           *)
(***************************************************************************)
\* the defaultValue a schema may declare
CollectDefaults == { Undefined, Str(""), Str("5"), Str("true"), Str("Yes"), Str("abc") }
\* every ParameterConfig over those defaults
ParameterConfigs ==
  { ParamObj(Str("d"), Bool(r), Str(ty), dv) :
      r \in BOOLEAN, ty \in ParameterTypes, dv \in CollectDefaults }
\* the configurations of a second parameter
LaterConfigs ==
  { ParamObj(Str("d"), Bool(TRUE), Str("string"), Undefined),
    ParamObj(Str("d"), Bool(TRUE), Str("number"), Str("5")),
    ParamObj(Str("d"), Bool(TRUE), Str("boolean"), Undefined),
    ParamObj(Str("d"), Bool(FALSE), Str("string"), Undefined),
    ParamObj(Str("d"), Bool(FALSE), Str("number"), Str("5")),
    ParamObj(Str("d"), Bool(FALSE), Str("boolean"), Str("Yes")) }
\* the parameters of the template definitions collected for
ParameterSchemas ==
  {<<>>}
    \cup { <<ParamEntry("x", c)>> : c \in ParameterConfigs }
    \cup { <<ParamEntry("x", c1), ParamEntry("y", c2)>> :
             c1 \in ParameterConfigs, c2 \in LaterConfigs }

\* what the user types at a prompt before pressing Enter
TypedInputs == { "", " ", "abc", "5", "y", "n" }
\* the answers a prompt function may hand back
RawValues ==
  { Undefined, Null, Bool(TRUE), Bool(FALSE), Num("5"), Num("0"), Num("NaN"),
    Str(""), Str("abc"), Str("5"), Str("0"), Str("TRUE"), Str("Yes"), Str("no"),
    Str("maybe") }

\* inquirer's input prompt: an empty line takes the prompt's default, the
\* filter runs on the value, the validator accepts or rejects the result
InputPrompt(prompt, typed) ==
  LET line == IF typed = ""
                THEN IF prompt.default \in {Undefined, Null} THEN Str("") ELSE prompt.default
                ELSE Str(typed)
      value == IF prompt.filter THEN numberFilter(prompt.config, line) ELSE line
  IN [value |-> value,
      accepted |-> ~createValidator(prompt.name, prompt.config, value).thrown]
\* inquirer's confirm prompt: an empty line takes the prompt's default, which
\* is true when the prompt has none
ConfirmPrompt(prompt, typed) ==
  [value |-> IF typed = ""
               THEN IF prompt.default \in {Undefined, Null} THEN Bool(TRUE)
                    ELSE Boolean(prompt.default)
               ELSE Bool(typed = "y"),
   accepted |-> TRUE]
Inquire(prompt, typed) ==
  IF prompt.type = "confirm" THEN ConfirmPrompt(prompt, typed) ELSE InputPrompt(prompt, typed)

\* an answer: the value inquirer.prompt holds for the parameter and how it
\* came about (typed: the line the user entered, "-" when no line was read)
Answer(value, typed) == [value |-> value, typed |-> typed]
RawAnswers == [i \in DOMAIN answers |-> answers[i].value]

InitCollect ==
  /\ fs = NoDir
  /\ options = DefaultOptions
  /\ discovered = NotDiscovered
  /\ RegistryInit
  /\ templateParameters \in ParameterSchemas
  /\ CollectIdle
  /\ RenderIdle
  /\ cli = NoCli

\* collectParameters as it would be without the shortcut for a template
\* that declares no parameters
CollectParametersAlwaysPrompts ==
  /\ collectPhase = "idle"
  /\ prompts' = createPromptsFromParameters(templateParameters)
  /\ promptCalls' = promptCalls + 1
  /\ collectPhase' = "prompting"
  /\ UNCHANGED <<templateParameters, answers, collection>>
  /\ UNCHANGED <<registryVars, renderVars, cli>>

\* collectParameters(templateConfig, options) up to the await of
\* inquirer.prompt
CollectParameters ==
  /\ collectPhase = "idle"
  /\ IF Len(templateParameters) = 0
       THEN /\ collection' = CollectionSuccess(EmptyMap)
            /\ collectPhase' = "done"
            /\ UNCHANGED <<prompts, promptCalls>>
       ELSE /\ prompts' = createPromptsFromParameters(templateParameters)
            /\ promptCalls' = promptCalls + 1
            /\ collectPhase' = "prompting"
            /\ UNCHANGED collection
  /\ UNCHANGED <<templateParameters, answers>>
  /\ UNCHANGED <<registryVars, renderVars, cli>>

\* the user answers the next prompt at the terminal; a rejected line is
\* asked again
UserAnswers(typed) ==
  /\ collectPhase = "prompting"
  /\ Len(answers) < Len(prompts)
  /\ LET a == Inquire(prompts[Len(answers) + 1], typed)
     IN /\ a.accepted
        /\ answers' = Append(answers, Answer(a.value, typed))
  /\ UNCHANGED <<templateParameters, collectPhase, prompts, collection, promptCalls>>
  /\ UNCHANGED <<registryVars, renderVars, cli>>

\* the prompt function hands back a value for the next parameter without
\* reading a line (a replaced or non-interactive inquirer.prompt)
PromptReturns(value) ==
  /\ collectPhase = "prompting"
  /\ Len(answers) < Len(prompts)
  /\ answers' = Append(answers, Answer(value, "-"))
  /\ UNCHANGED <<templateParameters, collectPhase, prompts, collection, promptCalls>>
  /\ UNCHANGED <<registryVars, renderVars, cli>>

\* collectParameters from the await of inquirer.prompt on
CollectResume ==
  /\ collectPhase = "prompting"
  /\ Len(answers) = Len(prompts)
  /\ LET r == validateAndConvertParameters(RawAnswers, templateParameters)
     IN collection' = IF r.error.thrown THEN CollectionFailure(r.error)
                      ELSE CollectionSuccess(r.parameters)
  /\ collectPhase' = "done"
  /\ UNCHANGED <<templateParameters, prompts, answers, promptCalls>>
  /\ UNCHANGED <<registryVars, renderVars, cli>>

NextCollect ==
  \/ CollectParameters
  \/ \E typed \in TypedInputs : UserAnswers(typed)
  \/ \E value \in RawValues : PromptReturns(value)
  \/ CollectResume

SpecCollect == InitCollect /\ [][NextCollect]_vars

(***************************************************************************)
(* utils/template-generation.ts: the TemplateGenerator                     *)
(***************************************************************************)
\* a string as the sequence of its pieces: a piece is one character or one
\* Handlebars tag ("{{x}}", "{{y}}": a placeholder; "{{": an unclosed tag)
Text(pieces) == [t |-> "string", s |-> pieces]
PieceLength(piece) ==
  CASE piece \in {"{{x}}", "{{y}}"} -> 5
    [] piece = "{{" -> 2
    [] OTHER -> 1
\* String.prototype.length
RECURSIVE length(_)
length(pieces) ==
  IF pieces = <<>> THEN 0 ELSE PieceLength(Head(pieces)) + length(Tail(pieces))

\* the characters of String(v), over the parameter values in use
CharsOf(v) ==
  CASE String(v).s = "v" -> <<"v">>
    [] String(v).s = "" -> <<>>
    [] OTHER -> <<"?">>

\* a TemplateConfig handed to generatePrompt
TemplateDef(name, template, parameterEntries) ==
  [name |-> name, description |-> "d", template |-> template,
   parameters |-> parameterEntries]

\* GenerationOptions: an absent property is Undefined, an absent
\* maxTemplateSize is 0
GenerationOptions(includeHelpers, customHelpers, strict, maxTemplateSize, noEscape) ==
  [includeHelpers |-> includeHelpers, customHelpers |-> customHelpers, strict |-> strict,
   maxTemplateSize |-> maxTemplateSize, noEscape |-> noEscape]
NoOptions == GenerationOptions(Undefined, Undefined, Undefined, 0, Undefined)
\* { ...a, ...b }
MergeOptions(a, b) ==
  [includeHelpers |-> IF b.includeHelpers # Undefined THEN b.includeHelpers
                      ELSE a.includeHelpers,
   customHelpers |-> IF b.customHelpers # Undefined THEN b.customHelpers ELSE a.customHelpers,
   strict |-> IF b.strict # Undefined THEN b.strict ELSE a.strict,
   maxTemplateSize |-> IF b.maxTemplateSize # 0 THEN b.maxTemplateSize
                       ELSE a.maxTemplateSize,
   noEscape |-> IF b.noEscape # Undefined THEN b.noEscape ELSE a.noEscape]

\* the template size limit that applies when none is configured
DefaultMaxTemplateSize == 100000
\* the options of the exported templateGenerator instance
DefaultInstanceOptions ==
  GenerationOptions(Bool(TRUE), Undefined, Bool(FALSE), DefaultMaxTemplateSize, Bool(TRUE))
\* the names setupDefaultHelpers registers
DefaultHelperNames ==
  { "upper", "lower", "capitalize", "eq", "ne", "gt", "lt", "json", "length", "default" }

\* what Handlebars.compile returns: the source and the compile options
CompiledTemplate(source, strict, noEscape) ==
  [source |-> source, strict |-> strict, noEscape |-> noEscape]
NoCompiledTemplate == CompiledTemplate(<<>>, FALSE, FALSE)

\* !templateConfig.template
IsFalsyTemplate(template) ==
  IF template.t = "string" THEN template.s = <<>> ELSE ~Truthy(template)

\* compileTemplate as it would be if every call compiled the source it is
\* given
compileTemplateNoCache(templateConfig, opts, generatorOpts, cache) ==
  IF IsFalsyTemplate(templateConfig.template) \/ templateConfig.template.t # "string"
    THEN [error |-> Throw("Invalid template content", ""), compiled |-> NoCompiledTemplate,
          cache |-> cache]
  ELSE
    LET maxSize == IF generatorOpts.maxTemplateSize # 0 THEN generatorOpts.maxTemplateSize
                   ELSE DefaultMaxTemplateSize
        compiledTemplate ==
          CompiledTemplate(templateConfig.template.s, Truthy(opts.strict),
                           IF opts.noEscape = Undefined THEN TRUE
                           ELSE Truthy(opts.noEscape))
    IN IF length(templateConfig.template.s) > maxSize
         THEN [error |-> Throw("is too large", ""), compiled |-> NoCompiledTemplate,
               cache |-> cache]
         ELSE [error |-> NoError, compiled |-> compiledTemplate,
               cache |-> MapSet(cache, templateConfig.name, compiledTemplate)]

\* compileTemplate(templateConfig, options) on a generator with options
\* generatorOpts and compiledTemplates cache: the error thrown, the compiled
\* template returned and the cache afterwards
compileTemplate(templateConfig, opts, generatorOpts, cache) ==
  IF MapHas(cache, templateConfig.name)
    THEN [error |-> NoError, compiled |-> cache[templateConfig.name], cache |-> cache]
  ELSE IF IsFalsyTemplate(templateConfig.template)
            \/ templateConfig.template.t # "string"
    THEN [error |-> Throw("Invalid template content", ""), compiled |-> NoCompiledTemplate,
          cache |-> cache]
  ELSE
    LET maxSize == IF generatorOpts.maxTemplateSize # 0 THEN generatorOpts.maxTemplateSize
                   ELSE DefaultMaxTemplateSize
        compiledTemplate ==
          CompiledTemplate(templateConfig.template.s, Truthy(opts.strict),
                           IF opts.noEscape = Undefined THEN TRUE
                           ELSE Truthy(opts.noEscape))
    IN IF length(templateConfig.template.s) > maxSize
         THEN [error |-> Throw("is too large", ""), compiled |-> NoCompiledTemplate,
               cache |-> cache]
         ELSE [error |-> NoError, compiled |-> compiledTemplate,
               cache |-> MapSet(cache, templateConfig.name, compiledTemplate)]

\* the first required parameter that is not a key of parameters, 0 if none
RECURSIVE FirstMissing(_, _, _)
FirstMissing(parameterEntries, parameters, i) ==
  IF i > Len(parameterEntries) THEN 0
  ELSE IF Truthy(parameterEntries[i].config.required)
          /\ ~(parameterEntries[i].name \in DOMAIN parameters)
    THEN i
  ELSE FirstMissing(parameterEntries, parameters, i + 1)

\* the context object: the parameters and the reserved entries
Context(parameters, reserved) == [parameters |-> parameters, reserved |-> reserved]
EmptyContext == Context(EmptyMap, {})

\* prepareContext as it would be without the check of the required
\* parameters
prepareContextNoCheck(parameters, templateConfig, opts) ==
  [error |-> NoError,
   context |-> Context(parameters,
                       IF opts.includeHelpers # Bool(FALSE)
                         THEN {"_template", "_utils"} ELSE {"_template"})]

\* prepareContext(parameters, templateConfig, options): the error thrown and
\* the context returned
prepareContext(parameters, templateConfig, opts) ==
  LET missing == FirstMissing(templateConfig.parameters, parameters, 1)
  IN IF missing # 0
       THEN [error |-> Throw("is missing from context",
                             templateConfig.parameters[missing].name),
             context |-> EmptyContext]
       ELSE [error |-> NoError,
             context |-> Context(parameters,
                                 IF opts.includeHelpers # Bool(FALSE)
                                   THEN {"_template", "_utils"} ELSE {"_template"})]

\* registerCustomHelpers(helpers): the names the generator has registered
\* and the helpers Handlebars holds afterwards
registerCustomHelpers(helpers, registered, global) ==
  [registered |-> registered \cup DOMAIN helpers,
   global |-> [n \in DOMAIN global \cup DOMAIN helpers |->
                 IF n \in DOMAIN helpers /\ n \notin registered THEN helpers[n]
                 ELSE global[n]]]

\* whitespace as \s matches it
IsSpace(c) == c \in {" ", "\t", "\n"}
\* the end of the whitespace run that begins at i
RECURSIVE RunEnd(_, _)
RunEnd(s, i) == IF i < Len(s) /\ IsSpace(s[i + 1]) THEN RunEnd(s, i + 1) ELSE i
Newlines(s, i, e) == { j \in i..e : s[j] = "\n" }
LastOf(S) == CHOOSE j \in S : \A k \in S : k <= j
\* replace(/\n\s*\n\s*\n/g, "\n\n") from position i on
RECURSIVE CollapseBlankLines(_, _)
CollapseBlankLines(s, i) ==
  IF i > Len(s) THEN <<>>
  ELSE IF s[i] = "\n" /\ Cardinality(Newlines(s, i, RunEnd(s, i))) >= 3
    THEN <<"\n", "\n">> \o CollapseBlankLines(s, LastOf(Newlines(s, i, RunEnd(s, i))) + 1)
  ELSE <<s[i]>> \o CollapseBlankLines(s, i + 1)
\* replace(/^\s+|\s+$/g, "")
RECURSIVE TrimStart(_)
TrimStart(s) == IF s # <<>> /\ IsSpace(Head(s)) THEN TrimStart(Tail(s)) ELSE s
RECURSIVE TrimEnd(_)
TrimEnd(s) ==
  IF s # <<>> /\ IsSpace(s[Len(s)]) THEN TrimEnd(SubSeq(s, 1, Len(s) - 1)) ELSE s
\* replace(/[ \t]+/g, " ")
RECURSIVE CollapseSpaces(_)
CollapseSpaces(s) ==
  IF s = <<>> THEN <<>>
  ELSE IF Head(s) \in {" ", "\t"}
    THEN IF Len(s) > 1 /\ s[2] \in {" ", "\t"} THEN CollapseSpaces(Tail(s))
         ELSE <<" ">> \o CollapseSpaces(Tail(s))
  ELSE <<Head(s)>> \o CollapseSpaces(Tail(s))
\* cleanupOutput as it would be if it left the blank lines alone
cleanupOutputKeepsBlankLines(output) == CollapseSpaces(TrimEnd(TrimStart(output)))

\* cleanupOutput(output)
cleanupOutput(output) == CollapseSpaces(TrimEnd(TrimStart(CollapseBlankLines(output, 1))))

\* the compiled template applied to a context: Handlebars parses the source
\* on the first call, writes the characters through, and puts the value of
\* the context property in place of a placeholder (nothing for a missing
\* one, an error in strict mode)
IsPlaceholder(piece) == piece \in {"{{x}}", "{{y}}"}
PropertyOf(piece) == IF piece = "{{x}}" THEN "x" ELSE "y"
RECURSIVE Evaluate(_, _, _)
Evaluate(compiledTemplate, context, i) ==
  IF i > Len(compiledTemplate.source) THEN [error |-> NoError, output |-> <<>>]
  ELSE
    LET piece == compiledTemplate.source[i]
        rest == Evaluate(compiledTemplate, context, i + 1)
        present == PropertyOf(piece) \in DOMAIN context.parameters
    IN IF \E j \in DOMAIN compiledTemplate.source : compiledTemplate.source[j] = "{{"
         THEN [error |-> Throw("Parse error", ""), output |-> <<>>]
       ELSE IF ~IsPlaceholder(piece)
         THEN [error |-> rest.error, output |-> <<piece>> \o rest.output]
       ELSE IF ~present /\ compiledTemplate.strict
         THEN [error |-> Throw("not defined", ""), output |-> <<>>]
       ELSE IF ~present
         THEN rest
       ELSE [error |-> rest.error,
             output |-> CharsOf(context.parameters[PropertyOf(piece)]) \o rest.output]

\* renderTemplate(compiledTemplate, context, options): the error thrown and
\* the output returned
renderTemplate(compiledTemplate, context) ==
  LET r == Evaluate(compiledTemplate, context, 1)
  IN IF r.error.thrown
       THEN [error |-> Throw("Template rendering failed", ""), output |-> <<>>]
       ELSE [error |-> NoError, output |-> cleanupOutput(r.output)]

\* Date.now() at its successive readings: one run of a clock that never
\* goes back, in which two readings in a row are 0, 1, 2 or more apart
DateNow(reading) == (reading * reading) \div 4

\* the GenerationResult generatePrompt returns
GenerationSuccess(output, context, templateConfig, parameters, generationTime) ==
  [output |-> output, success |-> TRUE, context |-> context, error |-> NoError,
   metadata |-> [templateName |-> templateConfig.name,
                 parametersUsed |-> DOMAIN parameters,
                 generationTime |-> generationTime]]

\* the failed result as it would be if it handed the caller's parameters back
\* as the context
GenerationFailureKeepsContext(error, templateConfig, parameters, generationTime) ==
  [output |-> <<>>, success |-> FALSE, context |-> Context(parameters, {}), error |-> error,
   metadata |-> [templateName |-> templateConfig.name,
                 parametersUsed |-> DOMAIN parameters,
                 generationTime |-> generationTime]]

GenerationFailure(error, templateConfig, parameters, generationTime) ==
  [output |-> <<>>, success |-> FALSE, context |-> EmptyContext, error |-> error,
   metadata |-> [templateName |-> templateConfig.name,
                 parametersUsed |-> DOMAIN parameters,
                 generationTime |-> generationTime]]

\* generatePrompt(templateConfig, parameters, options) on a generator with
\* options generatorOpts, compiledTemplates cache and registeredHelpers
\* registered, while Handlebars holds the helpers global: the result, the
\* three afterwards, the compiled template the call obtained and whether it
\* was applied to a context
generatePrompt(templateConfig, parameters, opts, generatorOpts, cache, registered, global, reading) ==
  LET startTime == DateNow(reading)
      generationTime == DateNow(reading + 1) - startTime
      mergedOptions == MergeOptions(generatorOpts, opts)
      c == compileTemplate(templateConfig, mergedOptions, generatorOpts, cache)
      p == prepareContext(parameters, templateConfig, mergedOptions)
      h == IF mergedOptions.customHelpers # Undefined
             THEN registerCustomHelpers(mergedOptions.customHelpers, registered, global)
             ELSE [registered |-> registered, global |-> global]
      r == renderTemplate(c.compiled, p.context)
  IN IF c.error.thrown
       THEN [result |-> GenerationFailure(c.error, templateConfig, parameters, generationTime),
             cache |-> c.cache, registered |-> registered, global |-> global,
             compiled |-> NoCompiledTemplate, obtained |-> FALSE, evaluated |-> FALSE]
     ELSE IF p.error.thrown
       THEN [result |-> GenerationFailure(p.error, templateConfig, parameters, generationTime),
             cache |-> c.cache, registered |-> registered, global |-> global,
             compiled |-> c.compiled, obtained |-> TRUE, evaluated |-> FALSE]
     ELSE IF r.error.thrown
       THEN [result |-> GenerationFailure(r.error, templateConfig, parameters, generationTime),
             cache |-> c.cache, registered |-> h.registered, global |-> h.global,
             compiled |-> c.compiled, obtained |-> TRUE, evaluated |-> TRUE]
     ELSE [result |-> GenerationSuccess(r.output, p.context, templateConfig, parameters,
                                     generationTime),
           cache |-> c.cache, registered |-> h.registered, global |-> h.global,
           compiled |-> c.compiled, obtained |-> TRUE, evaluated |-> TRUE]

(***************************************************************************)
(* One TemplateGenerator and the calls made on it                          *)
(***************************************************************************)
RenderNames == { "n", "m" }
RenderSources == { Undefined, NumberVal, Text(<<"a">>), Text(<<"{{x}}">>), Text(<<"{{">>) }
RenderSchemas ==
  { <<>>,
    <<ParamEntry("x", ParamObj(Str("d"), Bool(TRUE), Str("string"), Undefined)),
      ParamEntry("y", ParamObj(Str("d"), Bool(TRUE), Str("string"), Undefined))>> }
\* the definitions rendered: every source without parameters, and the
\* missing, the literal and the placeholder source with the two required ones
RenderDefinitions ==
  { TemplateDef(n, src, <<>>) : n \in RenderNames, src \in RenderSources }
  \cup { TemplateDef(n, src, ps) : n \in RenderNames,
                                  src \in RenderSources \ {NumberVal, Text(<<"{{">>)},
                                  ps \in RenderSchemas }
RenderParameters == { EmptyMap, [x |-> Str("v")], [x |-> Str("v"), y |-> Str("v")] }
\* a template size limit small enough for sources to exceed it
SmallMaxTemplateSize == 3
CallOptions ==
  { NoOptions,
    GenerationOptions(Undefined, Undefined, Undefined, SmallMaxTemplateSize, Undefined) }
GeneratorOptions ==
  { NoOptions, DefaultInstanceOptions,
    GenerationOptions(Undefined, Undefined, Undefined, SmallMaxTemplateSize, Undefined),
    GenerationOptions(Bool(FALSE), [shout |-> "custom", upper |-> "custom"], Bool(TRUE), 0,
                      Undefined) }

\* no generatePrompt call has been made
NoRender ==
  [seq |-> 0, templateConfig |-> TemplateDef("", Undefined, <<>>),
   parameters |-> EmptyMap, options |-> NoOptions,
   result |-> GenerationFailure(NoError, TemplateDef("", Undefined, <<>>), EmptyMap, 0),
   compiled |-> NoCompiledTemplate, obtained |-> FALSE, evaluated |-> FALSE,
   renderedBefore |-> FALSE, firstBefore |-> NoCompiledTemplate, cleared |-> FALSE]

\* the calls of Handlebars.registerHelper for the names, with their
\* functions in helpers, added to the history
NoteRegistrations(history, names, helpers) ==
  [n \in DOMAIN history \cup names |->
     IF n \notin names THEN history[n]
     ELSE IF n \in DOMAIN history
       THEN [count |-> history[n].count + 1, first |-> history[n].first]
     ELSE [count |-> 1, first |-> helpers[n]]]

\* the first new TemplateGenerator(options) of the process: setupDefaultHelpers
\* has run
Constructed ==
  /\ compiledTemplates = EmptyMap
  /\ registeredHelpers = DefaultHelperNames
  /\ handlebarsHelpers = [n \in DefaultHelperNames |-> "default"]
  /\ lastRender = NoRender
  /\ firstRendered = EmptyMap
  /\ clearedNames = {}
  /\ generators = 1
  /\ helperRegistrations = [n \in DefaultHelperNames |-> [count |-> 1, first |-> "default"]]

InitRender ==
  /\ fs = NoDir
  /\ options = DefaultOptions
  /\ discovered = NotDiscovered
  /\ RegistryInit
  /\ templateParameters = <<>>
  /\ CollectIdle
  /\ generatorOptions \in GeneratorOptions
  /\ Constructed
  /\ cli = NoCli

\* generator.generatePrompt(templateConfig, parameters, options)
GeneratePrompt(templateConfig, parameters, callOptions) ==
  /\ lastRender.seq < MaxRenders
  /\ \E g \in { generatePrompt(templateConfig, parameters, callOptions, generatorOptions,
                                compiledTemplates, registeredHelpers, handlebarsHelpers,
                                2 * lastRender.seq) } :
       LET name == templateConfig.name
       IN /\ compiledTemplates' = g.cache
          /\ registeredHelpers' = g.registered
          /\ handlebarsHelpers' = g.global
          /\ lastRender' =
               [seq |-> lastRender.seq + 1, templateConfig |-> templateConfig,
                parameters |-> parameters, options |-> callOptions, result |-> g.result,
                compiled |-> g.compiled, obtained |-> g.obtained, evaluated |-> g.evaluated,
                renderedBefore |-> MapHas(firstRendered, name),
                firstBefore |-> IF MapHas(firstRendered, name) THEN firstRendered[name]
                                ELSE NoCompiledTemplate,
                cleared |-> name \in clearedNames]
          /\ firstRendered' = IF g.result.success /\ ~MapHas(firstRendered, name)
                                THEN MapSet(firstRendered, name, g.compiled)
                                ELSE firstRendered
          /\ clearedNames' = clearedNames \ {name}
          /\ helperRegistrations' =
               NoteRegistrations(helperRegistrations, g.registered \ registeredHelpers,
                                 g.global)
  /\ UNCHANGED <<generatorOptions, generators>>
  /\ UNCHANGED <<registryVars, collectVars, cli>>

\* clearCache as it would be if it left the cache alone
ClearCacheKeeps ==
  /\ firstRendered' = EmptyMap
  /\ clearedNames' = clearedNames \cup DOMAIN firstRendered
  /\ UNCHANGED <<generatorOptions, compiledTemplates, registeredHelpers, handlebarsHelpers,
                 lastRender, generators, helperRegistrations>>
  /\ UNCHANGED <<registryVars, collectVars, cli>>

\* generator.clearCache()
ClearCache ==
  /\ compiledTemplates' = EmptyMap
  /\ firstRendered' = EmptyMap
  /\ clearedNames' = clearedNames \cup DOMAIN firstRendered
  /\ UNCHANGED <<generatorOptions, registeredHelpers, handlebarsHelpers, lastRender,
                 generators, helperRegistrations>>
  /\ UNCHANGED <<registryVars, collectVars, cli>>

NextRender ==
  \/ \E templateConfig \in RenderDefinitions, parameters \in RenderParameters,
        callOptions \in CallOptions :
       GeneratePrompt(templateConfig, parameters, callOptions)
  \/ ClearCache

SpecRender == InitRender /\ [][NextRender]_vars

(***************************************************************************)
(* Properties of collectParameters (SpecCollect)                           *)
(***************************************************************************)
Collected == collectPhase = "done"
ParamIndexes == DOMAIN templateParameters
NameOf(i) == templateParameters[i].name
ConfigOf(i) == templateParameters[i].config
TypeOf(i) == ConfigOf(i).type.s
IsRequired(i) == ConfigOf(i).required = Bool(TRUE)
DefaultOf(i) == ConfigOf(i).defaultValue
RawOf(i) == answers[i].value
Holds(i) == NameOf(i) \in DOMAIN collection.parameters
\* a blank answer: the empty string or undefined
BlankRaw(v) == v = Str("") \/ v = Undefined
\* the user pressed Enter on an empty line, or the prompt function handed
\* back a blank answer
LeftBlank(i) ==
  \/ answers[i].typed = ""
  \/ answers[i].typed = "-" /\ BlankRaw(RawOf(i))
\* the words the specification accepts for a boolean, and the numeric texts
TrueWords == { "true", "TRUE", "yes", "Yes", "1" }
FalseWords == { "false", "no", "NO", "0" }
NumericTexts == { "0", "1", "5" }
\* a default value coerced to the declared type, as the specification
\* states it; Undefined where the text has no value of that type
CoercedDefault(i) ==
  CASE TypeOf(i) = "string" -> DefaultOf(i)
    [] TypeOf(i) = "number" ->
         IF DefaultOf(i).s \in NumericTexts THEN Num(DefaultOf(i).s) ELSE Undefined
    [] OTHER ->
         IF DefaultOf(i).s \in TrueWords THEN Bool(TRUE)
         ELSE IF DefaultOf(i).s \in FalseWords THEN Bool(FALSE)
         ELSE Undefined

\* C11: in a successful collection every optional parameter the user left
\* blank is held with its defaultValue coerced to the declared type, and its
\* key is absent exactly when the schema declares no defaultValue.
C11_BlankOptionalTakesDefault ==
  (Collected /\ collection.success) =>
    \A i \in ParamIndexes :
      (~IsRequired(i) /\ LeftBlank(i)) =>
        IF DefaultOf(i) = Undefined THEN ~Holds(i)
        ELSE Holds(i) /\ collection.parameters[NameOf(i)] = CoercedDefault(i)

\* the parameter whose conversion ended the collection, 0 if none did
Offender ==
  IF collection.error.thrown /\ \E i \in ParamIndexes : NameOf(i) = collection.error.param
    THEN CHOOSE i \in ParamIndexes : NameOf(i) = collection.error.param
    ELSE 0
Rejected == ~collection.success /\ collection.parameters = EmptyMap

\* C12: a blank raw answer (empty string or undefined) to a required
\* parameter of any type makes collectParameters fail with an error naming
\* that parameter (or one declared before it) and with empty parameters; the
\* blank value is never converted into a collected value.
C12_BlankRequiredFails ==
  Collected =>
    \A i \in ParamIndexes :
      (IsRequired(i) /\ BlankRaw(RawOf(i))) =>
        /\ Rejected
        /\ Offender \in 1..i
        /\ ~Holds(i)

\* C13: the defaultValue of a required parameter is ignored everywhere in
\* collection: its prompt has no default, a blank line at its prompt is not
\* answered with the default, and conversion does not put the default in
\* place of a blank answer.
C13_RequiredIgnoresDefault ==
  \A i \in DOMAIN prompts :
    (IsRequired(i) /\ DefaultOf(i) # Undefined) =>
      /\ prompts[i].default = Undefined
      /\ prompts[i].message.defaultText = Undefined
      /\ (i <= Len(answers) /\ trim(answers[i].typed) = "" /\ prompts[i].type = "input")
           => RawOf(i) # DefaultOf(i)
      /\ (Collected /\ BlankRaw(RawOf(i)) /\ Holds(i) /\ CoercedDefault(i) # Undefined)
           => collection.parameters[NameOf(i)] # CoercedDefault(i)

\* C14: after a successful collection the keys of the parameters are declared
\* names, every required parameter is present, and an optional parameter is
\* present only if its answer was not blank or its schema declares a default
\* value, and never as the empty string.
C14_SuccessfulCollectionShape ==
  (Collected /\ collection.success) =>
    /\ DOMAIN collection.parameters \subseteq { NameOf(i) : i \in ParamIndexes }
    /\ \A i \in ParamIndexes :
         /\ IsRequired(i) => Holds(i)
         /\ (~IsRequired(i) /\ Holds(i)) =>
              /\ ~BlankRaw(RawOf(i)) \/ DefaultOf(i) \notin {Undefined, Str("")}
              /\ collection.parameters[NameOf(i)] # Str("")
C14_Witness ==
  /\ Collected /\ collection.success
  /\ Len(templateParameters) = 2
  /\ ~IsRequired(1) /\ BlankRaw(RawOf(1)) /\ ~Holds(1)
  /\ IsRequired(2) /\ Holds(2)

\* the value the specification has conversion work on: the default in place
\* of a blank answer of an optional parameter that declares one
ValueToConvert(i) ==
  IF BlankRaw(RawOf(i)) /\ ~IsRequired(i) /\ DefaultOf(i) # Undefined
    THEN DefaultOf(i) ELSE RawOf(i)
\* an optional parameter without a value is left out, not converted
LeftOut(i) == ~IsRequired(i) /\ BlankRaw(ValueToConvert(i))
\* the conversions the specification lets fail
NumberFails(i) ==
  /\ TypeOf(i) = "number" /\ ~LeftOut(i)
  /\ \/ ValueToConvert(i) = Num("NaN")
     \/ ValueToConvert(i).t = "string" /\ ValueToConvert(i).s \notin NumericTexts \cup {"", " "}
BooleanFails(i) ==
  /\ TypeOf(i) = "boolean" /\ ~LeftOut(i)
  /\ ValueToConvert(i).t = "string"
  /\ ValueToConvert(i).s \notin TrueWords \cup FalseWords \cup {""}
RequiredBlank(i) == IsRequired(i) /\ BlankRaw(RawOf(i))
ConversionFailsAt(i) == NumberFails(i) \/ BooleanFails(i) \/ RequiredBlank(i)

\* C15: collection is all-or-nothing: if the conversion of any parameter
\* fails (a number that does not parse, a boolean string outside the accepted
\* words, a blank required value), collectParameters returns success = false,
\* an error naming the first such parameter and empty parameters, whatever
\* was converted before it.
C15_AllOrNothing ==
  Collected =>
    \A i \in ParamIndexes :
      (ConversionFailsAt(i) /\ \A j \in 1..(i - 1) : ~ConversionFailsAt(j)) =>
        Rejected /\ Offender = i

\* C16: boolean conversion passes a native boolean through, maps the strings
\* true/yes/1 to true and false/no/0 to false whatever their case, fails with
\* an error naming the parameter for every other string, and takes a value
\* of any other type by its truthiness.
BooleanOf(v) ==
  CASE v.t = "boolean" -> v
    [] v.t = "string" ->
         IF v.s \in TrueWords THEN Bool(TRUE)
         ELSE IF v.s \in FalseWords THEN Bool(FALSE)
         ELSE Undefined
    [] v.t = "number" -> Bool(v.s \notin {"0", "NaN"})
    [] OTHER -> Bool(FALSE)
C16_BooleanConversion ==
  Collected =>
    \A i \in ParamIndexes :
      (TypeOf(i) = "boolean" /\ ~LeftOut(i)) =>
        IF BooleanOf(ValueToConvert(i)) = Undefined
          THEN Rejected /\ Offender \in 1..i
               /\ (Offender = i => collection.error.text = "Invalid boolean value")
          ELSE /\ Offender # i
               /\ collection.success =>
                    /\ Holds(i)
                    /\ collection.parameters[NameOf(i)] = BooleanOf(ValueToConvert(i))
C16_Witness ==
  /\ Collected
  /\ Len(templateParameters) = 2
  /\ TypeOf(1) = "boolean" /\ RawOf(1) = Str("Yes")
  /\ TypeOf(2) = "boolean" /\ RawOf(2) = Str("maybe")
  /\ Rejected /\ Offender = 2

\* C17: for a template that declares no parameters collectParameters returns
\* success = true with empty parameters and never calls the prompt function.
C17_NoParametersNoPrompt ==
  Len(templateParameters) = 0 =>
    /\ promptCalls = 0 /\ answers = <<>>
    /\ Collected => collection = CollectionSuccess(EmptyMap)
C17_Witness == Collected /\ Len(templateParameters) = 0 /\ collection.success

(***************************************************************************)
(* Properties of the TemplateGenerator (SpecRender)                        *)
(***************************************************************************)
Rendered == lastRender.seq > 0
GivenSource == lastRender.templateConfig.template
\* what a source yields for the parameters of the latest call
OutputOf(source) ==
  IF source = <<"a">> THEN <<"a">>
  ELSE IF "x" \in DOMAIN lastRender.parameters THEN <<"v">>
  ELSE <<>>

\* C18: the compiled-template cache is keyed by the definition name only:
\* once a name has been rendered successfully, every later render of that
\* name uses the compiled form of the source of that first render, whatever
\* source the later definition carries, until clearCache() is called; the
\* next render of the name after clearCache() compiles the source it is
\* given.
C18_CacheKeyedByName ==
  Rendered =>
    /\ lastRender.renderedBefore =>
         /\ lastRender.obtained /\ lastRender.compiled = lastRender.firstBefore
         /\ lastRender.result.success =>
              lastRender.result.output = OutputOf(lastRender.firstBefore.source)
    /\ (lastRender.cleared /\ lastRender.obtained) =>
         /\ GivenSource.t = "string"
         /\ lastRender.compiled.source = GivenSource.s
         /\ lastRender.result.success => lastRender.result.output = OutputOf(GivenSource.s)
C18_Witness ==
  /\ lastRender.seq = 2
  /\ lastRender.renderedBefore
  /\ GivenSource = Text(<<"{{x}}">>)
  /\ lastRender.firstBefore.source = <<"a">>
  /\ lastRender.parameters # EmptyMap
  /\ lastRender.result.success
  /\ lastRender.result.output = <<"a">>

\* the maximum size configured for the latest call: the call's option, else
\* the generator's option, else the default
ConfiguredMax ==
  IF lastRender.options.maxTemplateSize # 0 THEN lastRender.options.maxTemplateSize
  ELSE IF generatorOptions.maxTemplateSize # 0 THEN generatorOptions.maxTemplateSize
  ELSE DefaultMaxTemplateSize
InvalidSource ==
  \/ GivenSource.t # "string"
  \/ GivenSource.t = "string" /\ length(GivenSource.s) > ConfiguredMax
GenerationErrors == { "Invalid template content", "is too large" }

\* C19: every generatePrompt call whose definition has a source that is
\* missing, not a string, or longer than the configured maximum size (the
\* call's option, else the generator's option, else 100,000) returns a
\* failed result with a generation error, and the cache holds no compiled
\* form of that source.
C19_InvalidSourceFails ==
  (Rendered /\ InvalidSource) =>
    /\ ~lastRender.result.success
    /\ lastRender.result.error.text \in GenerationErrors
    /\ \A n \in DOMAIN compiledTemplates :
         GivenSource.t = "string" => compiledTemplates[n].source # GivenSource.s

\* the required parameters that are not keys of the supplied parameters
MissingRequired ==
  { i \in DOMAIN lastRender.templateConfig.parameters :
      /\ lastRender.templateConfig.parameters[i].config.required = Bool(TRUE)
      /\ lastRender.templateConfig.parameters[i].name \notin DOMAIN lastRender.parameters }
MissingNames == { lastRender.templateConfig.parameters[i].name : i \in MissingRequired }
FirstMissingName ==
  lastRender.templateConfig.parameters[
    CHOOSE i \in MissingRequired : \A j \in MissingRequired : i <= j].name
MissingError == "is missing from context"

\* C20 as stated: a call with a required parameter missing from the keys of
\* the supplied parameters is never evaluated and returns success = false,
\* empty output and an error naming the missing parameter; a call with every
\* required key passes the check.
C20_MissingRequiredNamed ==
  Rendered =>
    /\ MissingRequired # {} =>
         /\ ~lastRender.evaluated
         /\ ~lastRender.result.success /\ lastRender.result.output = <<>>
         /\ lastRender.result.error.text = MissingError
         /\ lastRender.result.error.param \in MissingNames
    /\ MissingRequired = {} => lastRender.result.error.text # MissingError

\* C20: a call with a required parameter missing from the keys of the
\* supplied parameters is never evaluated and returns success = false and
\* empty output; its error names the first missing parameter unless getting
\* the compiled template failed first, and then it is that generation error;
\* a call with every required key passes the check.
C20_MissingRequiredNeverEvaluated ==
  Rendered =>
    /\ MissingRequired # {} =>
         /\ ~lastRender.evaluated
         /\ ~lastRender.result.success /\ lastRender.result.output = <<>>
         /\ IF lastRender.obtained
              THEN /\ lastRender.result.error.text = MissingError
                   /\ lastRender.result.error.param = FirstMissingName
              ELSE lastRender.result.error.text \in GenerationErrors
    /\ MissingRequired = {} => lastRender.result.error.text # MissingError
C20_Witness ==
  /\ Rendered
  /\ MissingRequired = {2}
  /\ lastRender.obtained /\ ~lastRender.evaluated
  /\ ~lastRender.result.success
  /\ lastRender.result.error = Throw(MissingError, "y")

(***************************************************************************)
(* Claims C21 and C30: the shape of the results and the life of the cache  *)
(***************************************************************************)
\* the time between the two clock readings of the latest call
ElapsedOfLatest == DateNow(2 * lastRender.seq - 1) - DateNow(2 * lastRender.seq - 2)
MetadataOfLatest ==
  [templateName |-> lastRender.templateConfig.name,
   parametersUsed |-> DOMAIN lastRender.parameters,
   generationTime |-> ElapsedOfLatest]

\* C21: every failed render, whether it fails getting the compiled template,
\* building the context or evaluating, returns empty output, success =
\* false, a non-empty error message and an empty context, and its metadata
\* still carries the template name, the names of the supplied parameters and
\* the elapsed time; every successful render has success = true and no
\* error.
C21_FailedResultShape ==
  Rendered =>
    /\ lastRender.result.metadata = MetadataOfLatest
    /\ lastRender.result.metadata.generationTime >= 0
    /\ IF lastRender.result.success
         THEN ~lastRender.result.error.thrown
         ELSE /\ lastRender.result.output = <<>>
              /\ lastRender.result.error.thrown /\ lastRender.result.error.text # ""
              /\ lastRender.result.context = EmptyContext
C21_Witness ==
  /\ lastRender.seq = 2
  /\ lastRender.obtained /\ ~lastRender.evaluated
  /\ ~lastRender.result.success
  /\ lastRender.parameters # EmptyMap
  /\ lastRender.result.metadata =
       [templateName |-> "m", parametersUsed |-> {"x"}, generationTime |-> 1]

\* the latest step was a generatePrompt call
RenderStep == lastRender'.seq # lastRender.seq
NameOfStep == lastRender'.templateConfig.name

\* C30: the cache gains an entry for a name exactly when compilation of that
\* name succeeds: a render that fails during compilation leaves the cache
\* unchanged, a render that fails after compilation (missing required
\* parameter, evaluation error) leaves the newly compiled entry in the
\* cache, and no render removes or replaces an entry, which only
\* clearCache() does.
C30_CacheGainsOnCompile ==
  [][RenderStep =>
       /\ \A n \in DOMAIN compiledTemplates :
            n \in DOMAIN compiledTemplates' /\ compiledTemplates'[n] = compiledTemplates[n]
       /\ DOMAIN compiledTemplates' \subseteq DOMAIN compiledTemplates \cup {NameOfStep}
       /\ NameOfStep \in DOMAIN compiledTemplates' <=>
            (lastRender'.obtained \/ NameOfStep \in DOMAIN compiledTemplates)
       /\ (lastRender'.obtained /\ NameOfStep \notin DOMAIN compiledTemplates) =>
            /\ lastRender'.templateConfig.template.t = "string"
            /\ compiledTemplates'[NameOfStep].source = lastRender'.templateConfig.template.s
       /\ ~lastRender'.obtained =>
            ~lastRender'.result.success /\ compiledTemplates' = compiledTemplates]_vars
C30_Witness ==
  /\ lastRender.seq = 1
  /\ lastRender.obtained /\ lastRender.evaluated
  /\ ~lastRender.result.success
  /\ GivenSource = Text(<<"{{">>)
  /\ lastRender.result.error.text = "Template rendering failed"
  /\ DOMAIN compiledTemplates = {lastRender.templateConfig.name}

(***************************************************************************)
(* Rendering literal text on a new generator                               *)
(***************************************************************************)
MaxLiteralLength == 6
LiteralCharacters == { "a", " ", "\t", "\n" }
LiteralTexts == UNION { [1..n -> LiteralCharacters] : n \in 0..MaxLiteralLength }

\* the first generatePrompt call on the generator, for a definition without
\* parameters whose source is a literal text, with no parameters and no
\* call options
RenderLiteral ==
  /\ lastRender.seq = 0
  /\ \E text \in LiteralTexts :
       GeneratePrompt(TemplateDef("n", Text(text), <<>>), EmptyMap, NoOptions)

NextLiteral == RenderLiteral

SpecLiteral == InitRender /\ [][NextLiteral]_vars

(***************************************************************************)
(* Claim C22: the round trip of literal text                               *)
(***************************************************************************)
\* the normalization, run of whitespace by run of whitespace: a run at
\* either end goes; a run with three or more newlines becomes two newlines,
\* with one space for the spaces and tabs before the first newline and one
\* for those after the last; in any other run every stretch of spaces and
\* tabs becomes one space
Blank(c) == c \in {" ", "\t"}
White(c) == Blank(c) \/ c = "\n"
RECURSIVE WhiteRunEnd(_, _)
WhiteRunEnd(s, i) == IF i < Len(s) /\ White(s[i + 1]) THEN WhiteRunEnd(s, i + 1) ELSE i
OneSpace(w) == IF w = <<>> THEN <<>> ELSE <<" ">>
RECURSIVE SqueezeBlanks(_, _)
SqueezeBlanks(w, j) ==
  IF j > Len(w) THEN <<>>
  ELSE IF w[j] = "\n" THEN <<"\n">> \o SqueezeBlanks(w, j + 1)
  ELSE IF j > 1 /\ Blank(w[j - 1]) THEN SqueezeBlanks(w, j + 1)
  ELSE <<" ">> \o SqueezeBlanks(w, j + 1)
NormalizedRun(w) ==
  LET nl == { j \in DOMAIN w : w[j] = "\n" }
      first == CHOOSE j \in nl : \A k \in nl : j <= k
      last == CHOOSE j \in nl : \A k \in nl : k <= j
  IN IF Cardinality(nl) >= 3
       THEN OneSpace(SubSeq(w, 1, first - 1)) \o <<"\n", "\n">>
            \o OneSpace(SubSeq(w, last + 1, Len(w)))
       ELSE SqueezeBlanks(w, 1)
RECURSIVE NormalizedFrom(_, _, _)
NormalizedFrom(s, i, b) ==
  IF i > b THEN <<>>
  ELSE IF ~White(s[i]) THEN <<s[i]>> \o NormalizedFrom(s, i + 1, b)
  ELSE NormalizedRun(SubSeq(s, i, WhiteRunEnd(s, i)))
       \o NormalizedFrom(s, WhiteRunEnd(s, i) + 1, b)
Normalized(s) ==
  LET ink == { j \in DOMAIN s : ~White(s[j]) }
      a == CHOOSE j \in ink : \A k \in ink : j <= k
      b == CHOOSE j \in ink : \A k \in ink : k <= j
  IN IF ink = {} THEN <<>> ELSE NormalizedFrom(s, a, b)

\* the latest call rendered literal text with no parameters
LiteralRendered ==
  /\ Rendered
  /\ GivenSource.t = "string"
  /\ \A j \in DOMAIN GivenSource.s : GivenSource.s[j] \in LiteralCharacters
  /\ lastRender.parameters = EmptyMap
\* the size limit of the generator
GeneratorMax ==
  IF generatorOptions.maxTemplateSize # 0 THEN generatorOptions.maxTemplateSize
  ELSE DefaultMaxTemplateSize

\* C22 as stated: every literal source, the empty and the whitespace-only
\* source included, rendered with no parameters succeeds and returns exactly
\* its normalization.
C22_LiteralRoundTrip ==
  LiteralRendered =>
    /\ lastRender.result.success
    /\ lastRender.result.output = Normalized(GivenSource.s)

\* C22: every literal source that is not empty and not longer than the
\* generator's size limit, the whitespace-only source included, rendered
\* with no parameters on a generator that has no compiled form cached for
\* the name succeeds and returns exactly its normalization; the empty source
\* fails with the error "Invalid template content", a longer one with "is
\* too large".
C22_NonEmptyLiteralRoundTrip ==
  (LiteralRendered /\ ~lastRender.renderedBefore /\ lastRender.seq = 1) =>
    IF GivenSource.s = <<>>
      THEN /\ ~lastRender.result.success
           /\ lastRender.result.error.text = "Invalid template content"
    ELSE IF Len(GivenSource.s) > GeneratorMax
      THEN /\ ~lastRender.result.success
           /\ lastRender.result.error.text = "is too large"
    ELSE /\ lastRender.result.success
         /\ lastRender.result.output = Normalized(GivenSource.s)
C22_Witness ==
  /\ LiteralRendered
  /\ GivenSource.s = <<"a", "\n", "\t", "\n", "\n", "a">>
  /\ lastRender.result.success
  /\ lastRender.result.output = <<"a", "\n", "\n", "a">>

(***************************************************************************)
(* Several TemplateGenerators in one process                               *)
(***************************************************************************)
MaxGenerators == 2
\* custom helpers: two functions for one new name, one for a default name
HelperSets == { [shout |-> "f1"], [shout |-> "f2"], [upper |-> "f1"] }
HelperOptions ==
  { NoOptions, DefaultInstanceOptions }
  \cup { GenerationOptions(Undefined, h, Undefined, 0, Undefined) : h \in HelperSets }

\* setupDefaultHelpers() of a generator that has registered nothing yet
setupDefaultHelpers(global) ==
  registerCustomHelpers([n \in DefaultHelperNames |-> "default"], {}, global)

InitHelpers ==
  /\ fs = NoDir
  /\ options = DefaultOptions
  /\ discovered = NotDiscovered
  /\ RegistryInit
  /\ templateParameters = <<>>
  /\ CollectIdle
  /\ generatorOptions \in HelperOptions
  /\ Constructed
  /\ cli = NoCli

\* a further new TemplateGenerator(options), which takes the place of the
\* generator in use
NewGenerator(opts) ==
  /\ generators < MaxGenerators
  /\ generators' = generators + 1
  /\ generatorOptions' = opts
  /\ compiledTemplates' = EmptyMap
  /\ registeredHelpers' = setupDefaultHelpers(handlebarsHelpers).registered
  /\ handlebarsHelpers' = setupDefaultHelpers(handlebarsHelpers).global
  /\ helperRegistrations' =
       NoteRegistrations(helperRegistrations, DefaultHelperNames,
                         setupDefaultHelpers(handlebarsHelpers).global)
  /\ firstRendered' = EmptyMap
  /\ clearedNames' = {}
  /\ UNCHANGED lastRender
  /\ UNCHANGED <<registryVars, collectVars, cli>>

NextHelpers ==
  \/ \E opts \in HelperOptions : NewGenerator(opts)
  \/ \E callOptions \in HelperOptions :
       GeneratePrompt(TemplateDef("n", Text(<<"a">>), <<>>), EmptyMap, callOptions)

SpecHelpers == InitHelpers /\ [][NextHelpers]_vars

(***************************************************************************)
(* Claim C23: helper names are registered once                             *)
(***************************************************************************)
\* C23: over any sequence of renders and any number of TemplateGenerators,
\* each helper name, the built-in default names included, is registered with
\* Handlebars at most once in the process, and the function registered
\* first stays in effect.
C23_HelperRegisteredOnce ==
  /\ DOMAIN handlebarsHelpers = DOMAIN helperRegistrations
  /\ \A n \in DOMAIN helperRegistrations :
       /\ helperRegistrations[n].count <= 1
       /\ handlebarsHelpers[n] = helperRegistrations[n].first

(***************************************************************************)
(* Claim C27: a subdirectory that cannot be read (SpecDisc)                *)
(***************************************************************************)
\* some directory below dir cannot be read
RECURSIVE UnreadableBelow(_)
UnreadableBelow(dir) ==
  \E i \in DOMAIN dir.entries :
    /\ dir.entries[i].kind = "dir"
    /\ ~dir.entries[i].sub.readable \/ UnreadableBelow(dir.entries[i].sub)
\* the files of dir and below, read or not, that would load as templates
RECURSIVE ValidBelow(_)
ValidBelow(dir) ==
  \E i \in DOMAIN dir.entries :
    \/ /\ dir.entries[i].kind = "file"
       /\ dir.entries[i].ext = options.extension
       /\ dir.entries[i].mod.importOk /\ DefinitionShape(Exported(dir.entries[i].mod))
    \/ dir.entries[i].kind = "dir" /\ ValidBelow(dir.entries[i].sub)

\* C27: if reading any subdirectory below the root fails during the
\* enumeration, the whole pass returns an empty template map and exactly
\* one error, of type file-system; no candidate is loaded, even when other
\* candidates are valid.
C27_UnreadableSubdirectoryAbandonsPass ==
  (discovered.done /\ fs.readable /\ UnreadableBelow(fs)) =>
    /\ discovered.templates = EmptyMap
    /\ Len(discovered.errors) = 1
    /\ discovered.errors[1].type = "file-system"
\* a pass over a valid candidate followed by a directory whose subdirectory
\* cannot be read has returned
C27_Witness ==
  /\ discovered.done
  /\ fs.readable /\ Len(fs.entries) = 2
  /\ fs.entries[1].kind = "file" /\ ValidBelow(fs)
  /\ fs.entries[2].kind = "dir" /\ fs.entries[2].sub.readable
  /\ UnreadableBelow(fs.entries[2].sub) /\ ValidBelow(fs.entries[2].sub)
  /\ discovered.templates = EmptyMap
  /\ Len(discovered.errors) = 1

(***************************************************************************)
(* Claims C28 and C29: the results handed out and the summary (Spec)       *)
(***************************************************************************)
\* the calls of discover() and refresh() that have returned a result
ReturnedCalls ==
  { c \in CallIds : calls[c].phase = "resolved" /\ calls[c].op \in {"discover", "refresh"}
                      /\ calls[c].ret # 0 }

\* C28: a DiscoveryResult that discover() or refresh() has returned to a
\* caller is never modified by a later registry operation: its templates
\* and its errors stay what the pass that produced it found.
C28_ReturnedResultNeverModified ==
  \A c \in ReturnedCalls : heap[calls[c].ret] = scans[calls[c].ret].orig

\* C29: in every reachable state of the registry the summary agrees with
\* the accessors: templateCount is the number of names getTemplateNamesSync()
\* returns, errorCount is the length of getDiscoveryErrors(), hasErrors holds
\* exactly when errorCount > 0, and discovered = false implies no templates,
\* no errors and no known names.
C29_SummaryAgreesWithAccessors ==
  /\ getDiscoverySummary.templateCount = Len(getTemplateNamesSync)
  /\ getDiscoverySummary.errorCount = Len(getDiscoveryErrors)
  /\ getDiscoverySummary.hasErrors <=> getDiscoverySummary.errorCount > 0
  /\ ~getDiscoverySummary.discovered =>
       /\ getDiscoverySummary.templateCount = 0
       /\ getDiscoverySummary.errorCount = 0
       /\ getTemplateNamesSync = <<>>
\* refresh() has dropped a result that held templates, and a later pass has
\* installed one with a template and an error
C29_Witness ==
  /\ \E s \in ScanIds : assigns[s] > 0 /\ s # lastDiscovery
                          /\ scans[s].orig.templates # EmptyMap
  /\ \E c \in CallIds : calls[c].op = "refresh"
  /\ getDiscoverySummary =
       [discovered |-> TRUE, templateCount |-> 1, errorCount |-> 1, hasErrors |-> TRUE]

(***************************************************************************)
(* cli.ts: the generate command                                            *)
(***************************************************************************)
\* getTemplate(templates, templateName) of utils/template-discovery.ts:
\* NoTemplate stands for undefined
getTemplate(m, templateName) == IF MapHas(m, templateName) THEN m[templateName] ELSE NoTemplate

\* the key of the i-th property of config.parameters
ParameterNames == <<"x", "y">>
\* Object.entries(config.parameters)
Entries_(config) ==
  [i \in DOMAIN config.parameters.vals |->
     ParamEntry(ParameterNames[i], config.parameters.vals[i])]
\* the pieces of the template strings in use
Pieces(str) ==
  CASE str = "" -> <<>>
    [] str = "{{x}}" -> <<"{{x}}">>
    [] str = "{{" -> <<"{{">>
    [] OTHER -> <<str>>
\* template.config as the TemplateConfig generatePrompt takes
TemplateConfigOf(config) ==
  TemplateDef(config.name.s, Text(Pieces(config.template.s)), Entries_(config))

\* the command line: generate <template-name> [-o file] [--no-interactive]
NewCli(templateName, interactive, output) ==
  [stage |-> "discovery", templateName |-> templateName, interactive |-> interactive,
   output |-> output, template |-> NoTemplate, parameters |-> EmptyMap,
   written |-> "none", exitCode |-> 0, failedAt |-> ""]
\* process.exit(1) at a stage
Exit1(at) == [cli EXCEPT !.stage = "exited", !.exitCode = 1, !.failedAt = at]

\* the template modules the command finds
CliParameter ==
  { ParamObj(Str("d"), Bool(FALSE), Str("string"), Str("v")),
    ParamObj(Str("d"), Bool(FALSE), Str("string"), Undefined),
    ParamObj(Str("d"), Bool(TRUE), Str("string"), Undefined) }
CliModulesA ==
  { Module(TRUE, ConfigObj(Str("a"), Str("desc"), Str(t), ParamsVal("object", <<>>)), NoExport) :
      t \in {"a", "{{"} }
CliModulesB ==
  { Module(TRUE, ConfigObj(Str("b"), Str("desc"), Str("{{x}}"), ParamsVal("object", <<q>>)),
           NoExport) : q \in CliParameter }
  \cup { Module(TRUE, ConfigObj(Str("b"), Str("desc"), Str("{{"),
                                ParamsVal("object", <<GoodParam>>)), NoExport) }
CliTrees ==
  { Dir(FALSE, <<>>) }
  \cup { Dir(TRUE, <<FileEntry(".ts", ma), FileEntry(".ts", mb)>>) :
           ma \in CliModulesA \cup {BrokenModule}, mb \in CliModulesB }
CliNames == { "a", "b", "z" }
CliOutputs == { "", "out.txt" }

InitCli ==
  /\ fs \in CliTrees
  /\ options = DefaultOptions
  /\ discovered = NotDiscovered
  /\ RegistryInit
  /\ templateParameters = <<>>
  /\ CollectIdle
  /\ generatorOptions = DefaultInstanceOptions
  /\ Constructed
  /\ cli \in { NewCli(n, i, o) : n \in CliNames, i \in BOOLEAN, o \in CliOutputs }

\* await discoverTemplates()
CliDiscover ==
  /\ cli.stage = "discovery"
  /\ DiscoverTemplates

\* from the return of discoverTemplates to the next await: the lookup and
\* the choice between collecting, rejecting and rendering without parameters
CliLookup ==
  /\ cli.stage = "discovery"
  /\ discovered.done
  /\ LET template == getTemplate(discovered.templates, cli.templateName)
         parameterEntries == Entries_(template.config)
     IN IF template = NoTemplate
          THEN cli' = Exit1("lookup") /\ UNCHANGED templateParameters
        ELSE IF cli.interactive /\ Len(parameterEntries) > 0
          THEN /\ cli' = [cli EXCEPT !.stage = "collecting", !.template = template]
               /\ templateParameters' = parameterEntries
        ELSE IF \E i \in DOMAIN parameterEntries : Truthy(parameterEntries[i].config.required)
          THEN /\ cli' = [Exit1("collection") EXCEPT !.template = template]
               /\ UNCHANGED templateParameters
        ELSE /\ cli' = [cli EXCEPT !.stage = "rendering", !.template = template]
             /\ UNCHANGED templateParameters
  /\ UNCHANGED <<collectPhase, prompts, answers, collection, promptCalls>>
  /\ UNCHANGED <<registryVars, renderVars>>

\* await collectParameters(template.config, ...)
CliCollect ==
  /\ cli.stage = "collecting"
  /\ CollectParameters
CliAnswer(typed) ==
  /\ cli.stage = "collecting"
  /\ UserAnswers(typed)
CliCollectResume ==
  /\ cli.stage = "collecting"
  /\ CollectResume

\* from the return of collectParameters to the await of generatePrompt
CliCollected ==
  /\ cli.stage = "collecting"
  /\ collectPhase = "done"
  /\ cli' = IF ~collection.success THEN Exit1("collection")
            ELSE [cli EXCEPT !.stage = "rendering", !.parameters = collection.parameters]
  /\ UNCHANGED <<registryVars, collectVars, renderVars>>

\* await generatePrompt(template.config, parameters), on the default
\* templateGenerator
CliRender ==
  /\ cli.stage = "rendering"
  /\ lastRender.seq = 0
  /\ GeneratePrompt(TemplateConfigOf(cli.template.config), cli.parameters, NoOptions)

\* the continuation as it would be if it wrote the output whatever the
\* result of the generation
CliRenderedIgnoresFailure ==
  /\ cli.stage = "rendering"
  /\ lastRender.seq = 1
  /\ cli' = IF cli.output # "" THEN [cli EXCEPT !.stage = "writing"]
            ELSE [cli EXCEPT !.stage = "exited", !.written = "console"]
  /\ UNCHANGED <<registryVars, collectVars, renderVars>>

\* from the return of generatePrompt to the await of writeFile, or to the
\* end when the prompt goes to the console
CliRendered ==
  /\ cli.stage = "rendering"
  /\ lastRender.seq = 1
  /\ cli' = IF ~lastRender.result.success THEN Exit1("render")
            ELSE IF cli.output # "" THEN [cli EXCEPT !.stage = "writing"]
            ELSE [cli EXCEPT !.stage = "exited", !.written = "console"]
  /\ UNCHANGED <<registryVars, collectVars, renderVars>>

\* writeFile(outputPath, output) is fulfilled or rejects
CliWriteFile(fulfilled) ==
  /\ cli.stage = "writing"
  /\ cli' = IF fulfilled THEN [cli EXCEPT !.stage = "exited", !.written = "file"]
            ELSE Exit1("output")
  /\ UNCHANGED <<registryVars, collectVars, renderVars>>

NextCli ==
  \/ CliDiscover
  \/ CliLookup
  \/ CliCollect
  \/ \E typed \in TypedInputs : CliAnswer(typed)
  \/ CliCollectResume
  \/ CliCollected
  \/ CliRender
  \/ CliRendered
  \/ \E fulfilled \in BOOLEAN : CliWriteFile(fulfilled)

SpecCli == InitCli /\ [][NextCli]_vars

(***************************************************************************)
(* Claims C25 and C26: the generate command (SpecCli)                      *)
(***************************************************************************)
\* the command found its template
Found == cli.template # NoTemplate
DeclaredEntries == Entries_(cli.template.config)
DeclaresRequired ==
  \E i \in DOMAIN DeclaredEntries : DeclaredEntries[i].config.required = Bool(TRUE)
\* the optional parameters that declare a default, with their defaults
OptionalDefaults ==
  LET withDefault == { i \in DOMAIN DeclaredEntries :
                         /\ DeclaredEntries[i].config.required = Bool(FALSE)
                         /\ DeclaredEntries[i].config.defaultValue # Undefined }
  IN [n \in { DeclaredEntries[i].name : i \in withDefault } |->
        DeclaredEntries[CHOOSE i \in withDefault : DeclaredEntries[i].name = n]
          .config.defaultValue]
Exited == cli.stage = "exited"

\* C25: with --no-interactive the generate command issues no prompt and
\* uses the defaults only: the parameters it passes to the rendering are the
\* optional parameters that declare a defaultValue, each with that default,
\* and it is rejected with exit code 1 before rendering when the template
\* declares a required parameter.
C25_NoInteractiveUsesDefaults ==
  ~cli.interactive =>
    /\ promptCalls = 0 /\ collectPhase = "idle"
    /\ Rendered => lastRender.parameters = OptionalDefaults
    /\ (Found /\ DeclaresRequired) => (Exited /\ cli.exitCode = 1 /\ ~Rendered)

\* the discovery pass as a whole failed: it reports a file-system error
DiscoveryFailed ==
  /\ discovered.done
  /\ \E i \in DOMAIN discovered.errors : discovered.errors[i].type = "file-system"
LookupRan == discovered.done /\ cli.stage # "discovery"
LookupFailed == LookupRan /\ cli.templateName \notin DOMAIN discovered.templates
CollectionRan == collectPhase # "idle"
CollectionFailed ==
  \/ collectPhase = "done" /\ ~collection.success /\ cli.stage # "collecting"
  \/ LookupRan /\ Found /\ ~cli.interactive /\ DeclaresRequired
RenderFailed == Rendered /\ ~lastRender.result.success /\ cli.stage # "rendering"
Written == cli.written # "none"
\* the stages run keep their order, and the prompt is written only after
\* lookup, collection and render have succeeded
StagesInOrder ==
  /\ LookupRan => discovered.done
  /\ CollectionRan => (LookupRan /\ Found)
  /\ Rendered =>
       /\ LookupRan /\ Found
       /\ IF CollectionRan
            THEN /\ collectPhase = "done" /\ collection.success
                 /\ lastRender.parameters = collection.parameters
            ELSE ~DeclaresRequired /\ lastRender.parameters = EmptyMap
       /\ lastRender.templateConfig = TemplateConfigOf(cli.template.config)
  /\ Written =>
       /\ Rendered /\ lastRender.result.success
       /\ Exited /\ cli.exitCode = 0
       /\ cli.written = IF cli.output = "" THEN "console" ELSE "file"
\* the command ended with exit code 1 at the stage, and no later stage ran
EndedAt(stage) ==
  /\ Exited /\ cli.exitCode = 1 /\ cli.failedAt = stage
  /\ ~Written
  /\ stage \in {"discovery", "lookup", "collection"} => ~Rendered
  /\ stage \in {"discovery", "lookup"} => ~CollectionRan
  /\ stage = "discovery" => ~LookupRan
FailuresEnd ==
  /\ LookupFailed => EndedAt("lookup")
  /\ CollectionFailed => EndedAt("collection")
  /\ RenderFailed => EndedAt("render")
  /\ (Exited /\ cli.exitCode = 1) =>
       \/ cli.failedAt = "lookup" /\ LookupFailed
       \/ cli.failedAt = "collection" /\ CollectionFailed
       \/ cli.failedAt = "render" /\ RenderFailed
       \/ /\ cli.failedAt = "output" /\ cli.output # ""
          /\ Rendered /\ lastRender.result.success /\ ~Written

\* C26 as stated: the stages run in the order discovery, lookup, collection,
\* render, output; the prompt is written only after lookup, collection and
\* render have succeeded; a failure at any stage, the discovery included,
\* ends the command with exit code 1 at that stage without running a later
\* one.
C26_AnyFailureEndsCommand ==
  /\ StagesInOrder
  /\ FailuresEnd
  /\ (DiscoveryFailed /\ LookupRan) => EndedAt("discovery")

\* C26: the stages run in the order discovery, lookup, collection, render,
\* output; the prompt is written only after lookup, collection and render
\* have succeeded; a failure of the lookup, the collection, the render or
\* the write ends the command with exit code 1 without running a later
\* stage; the discovery never ends the command: the lookup always runs on
\* the map the discovery returned, and after a pass that failed as a whole
\* it is the lookup that ends the command with exit code 1.
C26_StagesInOrder ==
  /\ StagesInOrder
  /\ FailuresEnd
  /\ (DiscoveryFailed /\ LookupRan) => EndedAt("lookup")
\* an interactive command whose rendering failed after a successful
\* collection has ended
C26_Witness ==
  /\ CollectionRan /\ collection.success
  /\ RenderFailed
  /\ EndedAt("render")
  /\ cli.output # ""

(***************************************************************************)
(* The core operations one after the other: registry.getTemplate, then     *)
(* collectParameters and generatePrompt for the template found             *)
(***************************************************************************)
CoreNames == { "a", "b", "z" }
\* what a replaced prompt function hands back
CoreValues == { Str("") }
\* what the user types
CoreTyped == { "", "abc", "5" }
\* the getTemplate calls that returned a template
FoundCalls ==
  { c \in CallIds : calls[c].op = "getTemplate" /\ calls[c].phase = "resolved" }
\* the found templates whose parameters are the ones being collected
CollectedFor ==
  { c \in FoundCalls : Entries_(calls[c].template.config) = templateParameters }

InitCore ==
  /\ fs \in FsVersions
  /\ options = DefaultOptions
  /\ discovered = NotDiscovered
  /\ RegistryInit
  /\ templateParameters = <<>>
  /\ CollectIdle
  /\ generatorOptions = DefaultInstanceOptions
  /\ Constructed
  /\ cli = NoCli

\* the caller takes the parameters of a template it was given as the
\* argument of collectParameters
CorePass(c) ==
  /\ c \in FoundCalls
  /\ collectPhase = "idle"
  /\ templateParameters = <<>>
  /\ Entries_(calls[c].template.config) # <<>>
  /\ templateParameters' = Entries_(calls[c].template.config)
  /\ UNCHANGED <<collectPhase, prompts, answers, collection, promptCalls>>
  /\ UNCHANGED <<registryVars, renderVars, cli>>

\* collectParameters(template.config)
CoreCollect ==
  /\ CollectedFor # {}
  /\ CollectParameters

\* generatePrompt(template.config, parameters) with the parameters collected
CoreRender(c) ==
  /\ c \in CollectedFor
  /\ collectPhase = "done"
  /\ collection.success
  /\ lastRender.seq = 0
  /\ GeneratePrompt(TemplateConfigOf(calls[c].template.config), collection.parameters,
                    NoOptions)

NextCore ==
  \/ \E name \in CoreNames : GetTemplate(name)
  \/ \E s \in ScanIds : PerformDiscovery(s)
  \/ \E s \in ScanIds : DiscoverResume(s)
  \/ \E c \in CallIds : JoinResolve(c)
  \/ \E c \in CallIds : LookupResume(c)
  \/ \E c \in CallIds : CorePass(c)
  \/ CoreCollect
  \/ \E typed \in CoreTyped : UserAnswers(typed)
  \/ \E value \in CoreValues : PromptReturns(value)
  \/ CollectResume
  \/ \E c \in CallIds : CoreRender(c)

SpecCore == InitCore /\ [][NextCore]_vars

(***************************************************************************)
(* Claim C24: how the core operations report failure (SpecCore)            *)
(***************************************************************************)
\* the registry calls that ended by rejecting
RejectedCalls == { c \in CallIds : calls[c].phase = "rejected" }
\* the discovery passes that have returned
SettledScans == { s \in ScanIds : scans[s].status # "none" /\ scans[s].status # "running" }
\* a pass returns the templates it loaded and the errors it met; a pass over
\* a directory it cannot read returns no template and an error
DiscoveryReports ==
  \A s \in SettledScans :
    /\ DOMAIN scans[s].orig = {"templates", "errors"}
    /\ ~scans[s].dir.readable =>
         (scans[s].orig.templates = EmptyMap /\ Len(scans[s].orig.errors) = 1)
\* the conversion of the answers given ends with an error
ConversionThrows ==
  validateAndConvertParameters(RawAnswers, templateParameters).error.thrown
\* a collection that has returned says whether it succeeded, and fails
\* exactly when the conversion threw
CollectionReports ==
  collectPhase = "done" =>
    /\ collection.success <=> ~collection.error.thrown
    /\ collection.success <=> (templateParameters = <<>> \/ ~ConversionThrows)
    /\ ~collection.success => (collection.parameters = EmptyMap /\ collection.error.text # "")
\* a render that has returned says whether it succeeded
RenderReports ==
  Rendered =>
    /\ lastRender.result.success <=> ~lastRender.result.error.thrown
    /\ ~lastRender.result.success =>
         (lastRender.result.output = <<>> /\ lastRender.result.error.text # "")

\* C24 as stated: every failure path of discovery, registry lookup by
\* getTemplate, parameter collection and rendering produces a structured
\* result that tells success from failure; no operation rejects.
C24_NoOperationRejects ==
  /\ DiscoveryReports
  /\ CollectionReports
  /\ RenderReports
  /\ RejectedCalls = {}

\* C24: every failure path of discovery, parameter collection and rendering
\* produces a structured result that tells success from failure, and none
\* of the three rejects; the registry lookup by getTemplate does reject: a
\* name that is not in the registry after discovery is reported by a
\* rejection carrying the known names, never by a result object, and nothing
\* else makes it reject.
C24_OnlyLookupRejects ==
  /\ DiscoveryReports
  /\ CollectionReports
  /\ RenderReports
  /\ \A c \in RejectedCalls :
       /\ calls[c].op = "getTemplate"
       /\ \A i \in DOMAIN calls[c].available : calls[c].available[i] # calls[c].name
       /\ calls[c].template = NoTemplate
  /\ \A c \in FoundCalls : calls[c].template.name = calls[c].name
\* a lookup has rejected, a collection for a template found has succeeded
\* and its rendering has failed
C24_Witness ==
  /\ RejectedCalls # {}
  /\ CollectedFor # {}
  /\ collectPhase = "done" /\ collection.success /\ promptCalls = 1
  /\ Rendered /\ ~lastRender.result.success

====
